---- MODULE Spec2Model ----
(***************************************************************************)
(* Model of the payloadcmsdirectory CLI: the plugin installer's Payload    *)
(* config patcher (src/src/commands/update.ts), the backup helper          *)
(* (src/unnamed/part_002) and the ConfigHandler                            *)
(* (src/src/utils/packageManager.ts).                                      *)
(*                                                                         *)
(* A text is a sequence of tokens.  A token is one lexical unit of the     *)
(* file: a punctuation character, one whitespace character ("sp" is a      *)
(* blank, "nl" a line break) or a whole word.  No word of the alphabet     *)
(* occurs inside another one at a place where a pattern of the code could  *)
(* match, so a JavaScript regular expression over the characters matches   *)
(* exactly where the token-level matcher below matches.  The alphabet has  *)
(* no "$", so String.prototype.replace inserts its replacement verbatim.   *)
(***************************************************************************)
EXTENDS Integers, Sequences, FiniteSets, TLC

\* ------------------------------------------------------------------ bounds
MaxPieces == 3

\* ---------------------------------------------------------- text helpers
Min(S) == CHOOSE x \in S : \A y \in S : x <= y
Max(S) == CHOOSE x \in S : \A y \in S : x >= y

\* \s of the regular expressions
IsWs(t) == t \in {"sp", "nl"}

\* the index of the first token at or after i that \s* cannot consume
\* (Len(s) + 1 when only whitespace is left)
SkipWs(s, i) == Min({j \in i..(Len(s) + 1) : j > Len(s) \/ ~IsWs(s[j])})

\* s[a..b], empty when b < a
Slice(s, a, b) == IF b < a THEN <<>> ELSE SubSeq(s, a, b)

\* String.prototype.trim
TrimLeft(s) == Slice(s, SkipWs(s, 1), Len(s))

TrimRight(s) == Slice(s, 1, Max({j \in 0..Len(s) : j = 0 \/ ~IsWs(s[j])}))

Trim(s) == TrimLeft(TrimRight(s))

\* String.prototype.includes for a one-token needle
Includes(s, t) == \E i \in 1..Len(s) : s[i] = t

\* String.prototype.indexOf for a token sequence (1-based; 0 when absent).
\* The empty needle is found at the very start, as in JavaScript.
IndexOfSeq(s, needle) ==
    LET n == Len(needle)
        I == {i \in 1..(Len(s) - n + 1) : Slice(s, i, i + n - 1) = needle}
    IN  IF n = 0 THEN 1 ELSE IF I = {} THEN 0 ELSE Min(I)

\* String.prototype.replace(string, string): the first occurrence only
ReplaceFirstSeq(s, needle, repl) ==
    LET i == IndexOfSeq(s, needle)
    IN  IF i = 0 THEN s
        ELSE Slice(s, 1, i - 1) \o repl \o Slice(s, i + Len(needle), Len(s))

\* replace(/,\s*,/g, ","): leftmost matches, never overlapping.  In a run of
\* commas that only whitespace separates, the first matches with the second,
\* the third with the fourth, and so on; each match leaves its first comma.
ReplaceDoubleCommas(s) ==
    LET n == Len(s)
        IsSep(k) == s[k] = "," \/ IsWs(s[k])
        \* the commas of the run that ends at the comma i
        rank(i) ==
            LET p == Min({q \in 1..i : \A k \in q..i : IsSep(k)})
            IN  Cardinality({k \in p..i : s[k] = ","})
        Starts(i) ==
            /\ s[i] = ","
            /\ SkipWs(s, i + 1) <= n /\ s[SkipWs(s, i + 1)] = ","
            /\ rank(i) % 2 = 1
        matched == {i \in 1..n : Starts(i)}
        kept == {k \in 1..n : ~\E i \in matched : i < k /\ k <= SkipWs(s, i + 1)}
        nth(k) == CHOOSE i \in kept : Cardinality({j \in kept : j <= i}) = k
    IN  IF matched = {} THEN s
        ELSE [k \in 1..Cardinality(kept) |-> s[nth(k)]]

\* replace(/,\s*$/, ""): a comma with only whitespace up to the end of input
RemoveTrailingComma(s) ==
    LET t == TrimRight(s)
    IN  IF t # <<>> /\ t[Len(t)] = "," THEN Slice(t, 1, Len(t) - 1) ELSE s

\* replace(/\[\s*,/, "["): the first "[" that whitespace and a comma follow
RemoveCommaAfterOpen(s) ==
    LET I == {i \in 1..Len(s) :
                 /\ s[i] = "["
                 /\ SkipWs(s, i + 1) <= Len(s)
                 /\ s[SkipWs(s, i + 1)] = ","}
    IN  IF I = {} THEN s
        ELSE LET i == Min(I)
             IN  Slice(s, 1, i) \o Slice(s, SkipWs(s, i + 1) + 1, Len(s))

\* replace(/,\s*\]/, "]"): the first comma that whitespace and a "]" follow
RemoveCommaBeforeClose(s) ==
    LET I == {i \in 1..Len(s) :
                 /\ s[i] = ","
                 /\ SkipWs(s, i + 1) <= Len(s)
                 /\ s[SkipWs(s, i + 1)] = "]"}
    IN  IF I = {} THEN s
        ELSE LET i == Min(I)
             IN  Slice(s, 1, i - 1) \o Slice(s, SkipWs(s, i + 1), Len(s))

\* ------------------------------------------------ the plugin registration
\* ShadcnPluginInstaller.getPackageName, as its name segments
getPackageName == <<"@payloadcms", "/", "plugin", "-", "shadcn">>

Join(segs) ==
    LET upTo[i \in 0..Len(segs)] == IF i = 0 THEN "" ELSE upTo[i - 1] \o segs[i]
    IN  upTo[Len(segs)]

\* split("/").pop(): the segments after the last "/"
LastPathPart(segs) ==
    Slice(segs, Max({i \in 0..Len(segs) : i = 0 \/ segs[i] = "/"}) + 1, Len(segs))

\* replace(/-/g, ""): a hyphen segment becomes the empty string
RemoveHyphens(segs) == [i \in 1..Len(segs) |-> IF segs[i] = "-" THEN "" ELSE segs[i]]

\* BasePluginInstaller.getPluginImportName
getPluginImportName == Join(RemoveHyphens(LastPathPart(getPackageName)))

packageName == Join(getPackageName)
pluginName == getPluginImportName

\* the package name as a string literal of the file, in either quote style
PkgSingle == "'" \o packageName \o "'"
PkgDouble == "\"" \o packageName \o "\""

\* ShadcnPluginInstaller.getPluginConfig (cssPath left at its default)
getPluginConfig ==
    << "nl", "sp", "shadcnPlugin", "(", "{", "nl",
       "enableAll: true", ",", "nl",
       "customScssPath: \"src/app/(payload)/custom.scss\"", ",", "nl",
       "injectStyles: false", ",", "nl",
       "customCSS: <backtick>", ":root", "sp", "{", "--custom-color: #ff0000;", "}", "<backtick>",
       ",", "nl", "sp", "}", ")" >>

\* ------------------------------------------- updatePayloadConfig, by step
NoMatch == [start |-> 0, open |-> 0, close |-> 0]

\* whether . of a regular expression matches every token of s[a..b]
NoLineBreak(s, a, b) == \A i \in a..b : s[i] # "nl"

\* importRegex.test(configContent):
\*   import\s+.*?<pluginName>.*?from\s+<quote><packageName><quote>
importRegexTest(s) ==
    \E i \in 1..Len(s) :
        /\ s[i] = "import"
        /\ i + 1 <= Len(s) /\ IsWs(s[i + 1])
        /\ \E n \in (i + 2)..Len(s) :
              /\ s[n] = pluginName
              \* \s+ takes a prefix of the whitespace, .*? the rest of the line
              /\ \E p \in (i + 1)..(n - 1) :
                    /\ \A q \in (i + 1)..p : IsWs(s[q])
                    /\ NoLineBreak(s, p + 1, n - 1)
              /\ \E f \in (n + 1)..Len(s) :
                    /\ s[f] = "from"
                    /\ NoLineBreak(s, n + 1, f - 1)
                    /\ f + 1 <= Len(s) /\ IsWs(s[f + 1])
                    /\ SkipWs(s, f + 1) <= Len(s)
                    /\ s[SkipWs(s, f + 1)] \in {PkgSingle, PkgDouble}

\* the line the code prepends: import { <pluginName> } from '<packageName>';\n
importStatement ==
    << "import", "sp", "{", "sp", pluginName, "sp", "}", "sp", "from", "sp",
       PkgSingle, ";", "nl" >>

\* a match of  <word>\s*:\s*\[([\s\S]*?)\]  starting at i
ListMatchAt(s, word, i) ==
    /\ s[i] = word
    /\ LET c == SkipWs(s, i + 1)
       IN  /\ c <= Len(s) /\ s[c] = ":"
           /\ LET o == SkipWs(s, c + 1)
              IN  /\ o <= Len(s) /\ s[o] = "["
                  /\ \E m \in (o + 1)..Len(s) : s[m] = "]"

\* configContent.match(/<word>\s*:\s*\[([\s\S]*?)\]/): the leftmost match,
\* its capture ending at the first "]" after the opening bracket
ListMatch(s, word) ==
    LET I == {i \in 1..Len(s) : ListMatchAt(s, word, i)}
    IN  IF I = {} THEN NoMatch
        ELSE LET i == Min(I)
                 o == SkipWs(s, SkipWs(s, i + 1) + 1)
             IN  [start |-> i, open |-> o,
                  close |-> Min({m \in (o + 1)..Len(s) : s[m] = "]"})]

pluginsMatch(s) == ListMatch(s, "plugins")

\* pluginsMatch[1]
Capture(s, m) == Slice(s, m.open + 1, m.close - 1)

\* pluginRegex.test(currentPlugins):
\*   (<pluginName>|shadcnPlugin)\s*\(\s*\{[\s\S]*?\}\s*\)
pluginRegexTest(cur) ==
    \E i \in 1..Len(cur) :
        /\ cur[i] \in {pluginName, "shadcnPlugin"}
        /\ LET p == SkipWs(cur, i + 1)
           IN  /\ p <= Len(cur) /\ cur[p] = "("
               /\ LET b == SkipWs(cur, p + 1)
                  IN  /\ b <= Len(cur) /\ cur[b] = "{"
                      /\ \E e \in (b + 1)..Len(cur) :
                            /\ cur[e] = "}"
                            /\ SkipWs(cur, e + 1) <= Len(cur)
                            /\ cur[SkipWs(cur, e + 1)] = ")"

hasPlugin_inverted(currentPlugins) == ~pluginRegexTest(currentPlugins)

hasPlugin(currentPlugins) == pluginRegexTest(currentPlugins)

cleanedPlugins(currentPlugins) ==
    Trim(RemoveTrailingComma(ReplaceDoubleCommas(currentPlugins)))

\* cleanedPlugins ? <comma> : <empty>
separator(cleaned) == IF cleaned # <<>> THEN <<",">> ELSE <<>>

\* `plugins: [${cleanedPlugins}${separator}${pluginConfig}]`
newPluginsSection(currentPlugins) ==
    LET cleaned == cleanedPlugins(currentPlugins)
    IN  <<"plugins", ":", "sp", "[">> \o cleaned \o separator(cleaned)
            \o getPluginConfig \o <<"]">>

\* configContent.replace(/plugins\s*:\s*\[[\s\S]*?\]/, newPluginsSection)
ReplaceMatch(s, m, repl) ==
    Slice(s, 1, m.start - 1) \o repl \o Slice(s, m.close + 1, Len(s))

\* a match of  buildConfig\s*\(\s*\{([\s\S]*?)\}\s*\)  starting at i: open is
\* the "{", close the first "}" that whitespace and a ")" follow
BuildConfigCloses(s, o) ==
    {e \in (o + 1)..Len(s) :
        /\ s[e] = "}"
        /\ SkipWs(s, e + 1) <= Len(s)
        /\ s[SkipWs(s, e + 1)] = ")"}

BuildConfigMatchAt(s, i) ==
    /\ s[i] = "buildConfig"
    /\ LET p == SkipWs(s, i + 1)
       IN  /\ p <= Len(s) /\ s[p] = "("
           /\ LET o == SkipWs(s, p + 1)
              IN  /\ o <= Len(s) /\ s[o] = "{"
                  /\ BuildConfigCloses(s, o) # {}

buildConfigMatch(s) ==
    LET I == {i \in 1..Len(s) : BuildConfigMatchAt(s, i)}
    IN  IF I = {} THEN NoMatch
        ELSE LET i == Min(I)
                 o == SkipWs(s, SkipWs(s, i + 1) + 1)
             IN  [start |-> i, open |-> o, close |-> Min(BuildConfigCloses(s, o))]

\* configBody + `\n  plugins: [${this.getPluginConfig()}],`
newConfigBody(configBody) ==
    configBody \o <<"nl", "sp", "sp", "plugins", ":", "sp", "[">> \o getPluginConfig
        \o <<"]", ",">>

\* "Clean up any formatting issues"
Cleanup(s) == RemoveCommaBeforeClose(RemoveCommaAfterOpen(ReplaceDoubleCommas(s)))

\* lines 119-127: the import is prepended unless importRegex finds one
WithImport(configContent) ==
    IF importRegexTest(configContent) THEN configContent
    ELSE importStatement \o configContent

\* lines 129-171: the plugins list, or else the buildConfig call
WithPlugin(s) ==
    LET pm == pluginsMatch(s)
        bm == buildConfigMatch(s)
    IN  IF pm # NoMatch
        THEN IF hasPlugin(Capture(s, pm)) THEN s
             ELSE ReplaceMatch(s, pm, newPluginsSection(Capture(s, pm)))
        ELSE IF bm # NoMatch
             THEN ReplaceFirstSeq(s, Capture(s, bm), newConfigBody(Capture(s, bm)))
             ELSE s

\* BasePluginInstaller.updatePayloadConfig
updatePayloadConfig(configContent) == Cleanup(WithPlugin(WithImport(configContent)))

\* ------------------------------------------------------ the Format Detector
\* CONFIG_TEMPLATES.*.validate: content.includes(<marker>)
isESM(content) == Includes(content, "export default")
isCommonJS(content) == Includes(content, "module.exports")

\* a classification that looks for module.exports first
format_commonjsFirst(content) ==
    IF isCommonJS(content) THEN "commonjs" ELSE IF isESM(content) THEN "esm" ELSE "null"

\* validation.format: isESM ? "esm" : isCommonJS ? "commonjs" : null
format(content) ==
    IF isESM(content) THEN "esm" ELSE IF isCommonJS(content) THEN "commonjs" ELSE "null"

\* --------------------------------------------- the texts the patcher is given
\* A configuration file is typed top to bottom from pieces: at most one import
\* of the plugin, at most one module-style marker, then pieces of the body.
Heads ==
    << \* import { pluginshadcn } from "@payloadcms/plugin-shadcn";
       << "import", "sp", "{", "sp", pluginName, "sp", "}", "sp", "from", "sp",
          PkgDouble, ";", "nl" >>,
       \* the same import, one name a line
       << "import", "sp", "{", "nl", "sp", pluginName, ",", "nl", "}", "sp", "from",
          "sp", PkgSingle, ";", "nl" >>,
       \* const { pluginshadcn } = require('@payloadcms/plugin-shadcn');
       << "const", "sp", "{", "sp", pluginName, "sp", "}", "sp", "=", "sp",
          "require", "(", PkgSingle, ")", ";", "nl" >> >>

Markers ==
    << << "export default", "sp" >>,
       << "module.exports", "sp", "=", "sp" >> >>

BodyPieces ==
    << << "plugins", ":", "sp", "[" >>,
       << "]" >>,
       << "," >>,
       << "sp" >>,
       << "a" >>,
       \* an entry whose argument holds a list
       << "a", "(", "{", "b", ":", "sp", "[", "c", "]", "}", ")" >>,
       << "shadcnPlugin", "(", "{", "}", ")" >>,
       << "shadcnPlugin", "(", ")" >>,
       << "buildConfig", "(", "{" >>,
       << "}", ")" >>,
       \* another list of the file, written with a trailing comma
       << "collections", ":", "sp", "[", "a", ",", "nl", "]", ",", "nl" >>,
       \* a run of separators
       << ",", ",", ",", ",", "," >> >>

VARIABLES
    doc,        \* the configuration text typed so far
    typed,      \* the number of pieces typed
    stage,      \* "head", "marker" or "body": what may be typed next
    phase,      \* "edit", "patched" (one application), "repatched" (two)
    patched,    \* updatePayloadConfig(doc)
    repatched   \* updatePayloadConfig(patched)

\* the state of a session of file updates (specification SpecFs below)
VARIABLES
    fs,             \* the files: path -> text, or Absent
    pc,             \* where updatePayloadConfigFile stands; "idle" between calls
    configPath,     \* its local configPath
    configContent,  \* its local configContent
    error,          \* the error its catch block holds, "none" outside it
    last,           \* how the latest call ended
    calls,          \* the number of calls made
    orig,           \* history: the files when the session began
    written,        \* history: the paths a writeFile has changed
    before          \* history: the text of configPath when the call began

\* the state of a scaffolding run (specification SpecGen below)
VARIABLES
    argName,        \* the name given on the command line, empty when none was
    collectionName, \* the local collectionName of generateCollectionCommand
    pascalCaseName, \* its local pascalCaseName
    step,           \* "start", "name", "type" or "done": where the command stands
    prompted,       \* the latest input typed at the name prompt
    answer,         \* what validate said of it: "true", "required" or "invalid"
    useLocal,       \* config.templates.useLocal
    tree,           \* the project's files: file name -> text
    dirs,           \* history: the directories the run has created
    treeBefore,     \* history: the files when generation began
    made            \* history: what was generated, from where and to where, and
                    \* how the call came back to the command

\* a validator and the text it is given (specification SpecValidate below)
VARIABLES
    checked,        \* the text handed to validate
    validation      \* the template validated against and the result

\* the objects the commands share
VARIABLES
    catalog,        \* CONFIG_TEMPLATES and COLLECTION_TEMPLATES
    handler,        \* the configs of the ConfigHandler: path, template, backupPath
    install,        \* the run of the install-plugin command
    process,        \* the host process: whether it has exited, and its code
    directory       \* payloadcmsdirectory.config.js: as typed, after add, after remove

textVars == <<doc, typed, stage, phase, patched, repatched>>

fsVars == <<fs, pc, configPath, configContent, error, last, calls, orig, written, before>>

genVars ==
    <<argName, collectionName, pascalCaseName, step, prompted, answer, useLocal,
      tree, dirs, treeBefore, made>>

valVars == <<checked, validation>>

catVars == <<catalog, handler, install, process, directory>>

\* no install-plugin command is running
NoInstall ==
    [at |-> "off", environment |-> FALSE, confirm |-> TRUE, custom |-> "",
     wrote |-> <<>>, error |-> "none"]

Running == [exited |-> FALSE, code |-> 0]

NotInstalling == install = NoInstall /\ process = Running

\* no add or remove command is at work on payloadcmsdirectory.config.js
NoDirectory ==
    [exists |-> FALSE, content |-> <<>>, typed |-> 0, phase |-> "off",
     added |-> <<>>, removed |-> <<>>]

NotEditing == directory = NoDirectory

vars == <<textVars, fsVars, genVars, valVars, catVars>>

EmptyTree == [k \in {} |-> <<>>]

NoRun == [kind |-> "none", key |-> "", from |-> <<>>, to |-> <<>>, result |-> "none"]

NoValidation == [template |-> "none", isValid |-> FALSE, format |-> "null",
                 hasRequiredContent |-> FALSE]

\* no text has been handed to a validator
NothingChecked == checked = <<>> /\ validation = NoValidation

\* the scaffolder is not running and nothing is validated
NoScaffold ==
    /\ argName = <<>> /\ collectionName = <<>> /\ pascalCaseName = <<>>
    /\ step = "off" /\ prompted = <<>> /\ answer = ""
    /\ useLocal = FALSE /\ tree = EmptyTree /\ treeBefore = EmptyTree
    /\ dirs = {} /\ made = NoRun
    /\ NothingChecked

\* no file is touched while a text is composed and patched
NoSession ==
    /\ fs = <<>> /\ pc = "off" /\ configPath = <<>> /\ configContent = <<>>
    /\ error = "none" /\ last = <<>> /\ calls = 0 /\ orig = <<>>
    /\ written = {} /\ before = <<>>

Init ==
    /\ NoSession
    /\ NoScaffold
    /\ catalog = <<>> /\ handler = <<>>
    /\ NotInstalling
    /\ NotEditing
    /\ doc = <<>>
    /\ typed = 0
    /\ stage = "head"
    /\ phase = "edit"
    /\ patched = <<>>
    /\ repatched = <<>>

TypeHead(h) ==
    /\ phase = "edit" /\ stage = "head" /\ typed < MaxPieces
    /\ doc' = doc \o Heads[h]
    /\ typed' = typed + 1
    /\ stage' = "marker"
    /\ UNCHANGED <<phase, patched, repatched, fsVars, genVars, valVars, catVars>>

TypeMarker(m) ==
    /\ phase = "edit" /\ stage \in {"head", "marker"} /\ typed < MaxPieces
    /\ doc' = doc \o Markers[m]
    /\ typed' = typed + 1
    /\ stage' = "body"
    /\ UNCHANGED <<phase, patched, repatched, fsVars, genVars, valVars, catVars>>

TypeBody(b) ==
    /\ phase = "edit" /\ typed < MaxPieces
    /\ doc' = doc \o BodyPieces[b]
    /\ typed' = typed + 1
    /\ stage' = "body"
    /\ UNCHANGED <<phase, patched, repatched, fsVars, genVars, valVars, catVars>>

\* the installer applies updatePayloadConfig to the text of the file
Patch ==
    /\ phase = "edit"
    /\ patched' = updatePayloadConfig(doc)
    /\ phase' = "patched"
    /\ UNCHANGED <<doc, typed, stage, repatched, fsVars, genVars, valVars, catVars>>

\* a second installation applies it to the text the first one produced
Repatch ==
    /\ phase = "patched"
    /\ repatched' = updatePayloadConfig(patched)
    /\ phase' = "repatched"
    /\ UNCHANGED <<doc, typed, stage, patched, fsVars, genVars, valVars, catVars>>

Next ==
    \/ \E h \in 1..Len(Heads) : TypeHead(h)
    \/ \E m \in 1..Len(Markers) : TypeMarker(m)
    \/ \E b \in 1..Len(BodyPieces) : TypeBody(b)
    \/ Patch
    \/ Repatch

Spec == Init /\ [][Next]_vars

\* ------------------------------------------------------------ the file system
\* A path is <<name, suffix>>; the suffix is "" for the file itself and ".bak"
\* for the copy kept next to it.  A file holds a token text, or Absent.
MaxCalls == 2

Absent == <<"<absent>">>

null == <<>>

File(name) == <<name, "">>

\* `${filePath}.bak`  and  config.path + ".bak"
backupPath(filePath) == <<filePath[1], ".bak">>

payloadPaths ==
    << "src/payload.config.ts", "payload.config.ts",
       "src/payload.config.js", "payload.config.js" >>

tailwindPaths ==
    << "tailwind.config.ts", "tailwind.config.js",
       "tailwind.config.mjs", "tailwind.config.cjs" >>

postcssPaths ==
    << "postcss.config.js", "postcss.config.ts",
       "postcss.config.mjs", "postcss.config.cjs" >>

Range(seq) == {seq[i] : i \in 1..Len(seq)}

\* the path of the style sheet, which the caller of the handler supplies
cssPath == "src/app/globals.css"

Names ==
    Range(payloadPaths) \cup Range(tailwindPaths) \cup Range(postcssPaths)
        \cup {cssPath}

Paths == {File(n) : n \in Names} \cup {backupPath(File(n)) : n \in Names}

pathExists(f, p) == f[p] # Absent

\* the first of possiblePaths that exists, or null
findConfigFile(f, possiblePaths) ==
    LET I == {i \in 1..Len(possiblePaths) : pathExists(f, File(possiblePaths[i]))}
    IN  IF I = {} THEN null ELSE File(possiblePaths[Min(I)])

\* the templates of ./templates, which are written as they are
CONTENT_FUNCTION == <<"SHADCN_TEMPLATES.CONTENT_FUNCTION">>

POSTCSS_CONFIG == <<"SHADCN_TEMPLATES.POSTCSS_CONFIG">>

\* CONFIG_TEMPLATES.postcss.content
postcssContent ==
    << "export default", "sp", "{", "nl",
       "sp", "plugins", ":", "sp", "{", "nl",
       "sp", "@tailwindcss/postcss", ":", "sp", "{", "}", ",", "nl",
       "sp", "}", ",", "nl",
       "}", ";" >>

\* CONFIG_TEMPLATES.tailwind.content
tailwindContent ==
    << "import", "sp", "{", "sp", "type", "sp", "Config", "sp", "}", "sp",
       "from", "sp", "tailwindcss", ";", "nl",
       "import", "sp", "{", "sp", "getShadcnContent", "sp", "}", "sp",
       "from", "sp", "@payloadcmsdirectory/shadcn-ui", ";", "nl", "nl",
       "export default", "sp", "{", "nl",
       "sp", "content", ":", "sp", "[", "nl",
       "sp", "...", "getShadcnContent", "(", ")", ",", "nl",
       "sp", "./src/**/*.{js,ts,jsx,tsx}", ",", "nl",
       "sp", "]", ",", "nl",
       "sp", "theme", ":", "sp", "{", "nl",
       "sp", "extend", ":", "sp", "{", "}", ",", "nl",
       "sp", "}", ",", "nl",
       "sp", "plugins", ":", "sp", "[", "]", ",", "nl",
       "}", "sp", "satisfies", "sp", "Config", ";" >>

\* CONFIG_TEMPLATES.css.content
cssContent ==
    << "@import", "sp", "@payloadcmsdirectory/shadcn-ui/globals.css", ";", "nl", "nl",
       "@tailwind", "sp", "base", ";", "nl",
       "@tailwind", "sp", "components", ";", "nl",
       "@tailwind", "sp", "utilities", ";" >>

\* what each template's validate looks for
requiredContent(template) ==
    CASE template = "postcss" -> <<"@tailwindcss/postcss">>
      [] template = "tailwind" -> <<"getShadcnContent", "(", ")">>
      [] template = "css" -> <<"@payloadcmsdirectory/shadcn-ui/globals.css">>

templateContent(template) ==
    CASE template = "postcss" -> postcssContent
      [] template = "tailwind" -> tailwindContent
      [] template = "css" -> cssContent

\* CONFIG_TEMPLATES.<template>.validate(content)
validate(template, content) ==
    LET hasRequiredContent == IndexOfSeq(content, requiredContent(template)) # 0
    IN  [isValid |-> IF template = "css" THEN hasRequiredContent
                     ELSE (isESM(content) \/ isCommonJS(content)) /\ hasRequiredContent,
         format |-> IF template = "css" THEN "null" ELSE format(content),
         hasRequiredContent |-> hasRequiredContent]

\* the handler's configs, in the order addConfig received them
configs ==
    << [path |-> File("postcss.config.js"), template |-> "postcss"],
       [path |-> File("tailwind.config.ts"), template |-> "tailwind"],
       [path |-> File(cssPath), template |-> "css"] >>

\* the two catalogs as the modules define them
CONFIG_TEMPLATES ==
    [postcss |-> [name |-> "PostCSS", content |-> postcssContent],
     tailwind |-> [name |-> "Tailwind", content |-> tailwindContent],
     css |-> [name |-> "CSS", content |-> cssContent]]

COLLECTION_TEMPLATES ==
    [posts |-> [name |-> "Posts",
                description |-> "Blog posts or articles with title, content, and metadata"],
     pages |-> [name |-> "Pages",
                description |-> "Static content pages with flexible layout options"],
     courses |-> [name |-> "Courses",
                  description |-> "Educational content with modules, lessons, and enrollment"],
     products |-> [name |-> "Products",
                   description |-> "E-commerce products with pricing, variants, and inventory"]]

\* a command starts with the catalogs as defined and, from
\* createShadcnConfigHandler, a handler whose configs have no backupPath yet
Loaded ==
    /\ catalog = [config |-> CONFIG_TEMPLATES, collection |-> COLLECTION_TEMPLATES]
    /\ handler = [i \in 1..Len(configs) |->
                    [path |-> configs[i].path, template |-> configs[i].template,
                     backupPath |-> null]]

\* validateSingleConfig gives null for a missing file
needsWrite(f, config) ==
    \/ ~pathExists(f, config.path)
    \/ ~validate(config.template, f[config.path]).isValid

\* ----------------------------------------------------- the texts of a session
WithList ==
    << "export default", "sp", "buildConfig", "(", "{", "sp",
       "plugins", ":", "sp", "[", "]", "sp", "}", ")" >>

NoAnchorText == <<"export default", "sp", "{", "}">>

OlderText == <<"export default", "sp", "a">>

TailwindText ==
    << "module.exports", "sp", "=", "sp", "{", "sp",
       "content", ":", "sp", "[", "a", "]", "sp", "}" >>

PostcssText == <<"module.exports", "sp", "=", "sp", "{", "}">>

NoCall ==
    [op |-> "none", status |-> "ok", raised |-> "none", caught |-> "none",
     restored |-> FALSE]

Returned(op) ==
    [op |-> op, status |-> "ok", raised |-> "none", caught |-> "none",
     restored |-> FALSE]

Threw(op, raised, caught, restored) ==
    [op |-> op, status |-> "throw", raised |-> raised, caught |-> caught,
     restored |-> restored]

\* the record of the first writeFile to each path: the text the file had and
\* the text its backup had at that moment
FirstWrite(f, w, p) ==
    IF \E r \in w : r.path = p THEN w
    ELSE w \cup {[path |-> p, had |-> f[p], bak |-> f[backupPath(p)]]}

\* the files and the idle updater a session starts from
FsSession ==
    /\ NoScaffold
    /\ Loaded
    /\ doc = <<>> /\ typed = 0 /\ stage = "head" /\ phase = "off"
    /\ patched = <<>> /\ repatched = <<>>
    /\ \E p1 \in {Absent, WithList, NoAnchorText}, p2 \in {Absent, WithList},
          b1 \in {Absent, OlderText}, tw \in {Absent, TailwindText},
          pcss \in {Absent, PostcssText} :
            fs = [p \in Paths |->
                    CASE p = File(payloadPaths[1]) -> p1
                      [] p = File(payloadPaths[2]) -> p2
                      [] p = backupPath(File(payloadPaths[1])) -> b1
                      [] p = File(tailwindPaths[1]) -> tw
                      [] p = File(postcssPaths[1]) -> pcss
                      [] OTHER -> Absent]
    /\ orig = fs
    /\ pc = "idle" /\ configPath = null /\ configContent = <<>>
    /\ error = "none" /\ last = NoCall /\ calls = 0
    /\ written = {} /\ before = <<>>

InitFs == FsSession /\ NotInstalling /\ NotEditing

\* ----------------------------------------------------- updatePayloadConfigFile
\* lines 197-207: the file is looked up; none found is an error at once
CallUpdatePayloadConfigFile ==
    /\ pc = "idle" /\ calls < MaxCalls
    /\ calls' = calls + 1
    /\ LET found == findConfigFile(fs, payloadPaths)
       IN  /\ configPath' = found
           /\ IF found = null
              THEN /\ pc' = "idle"
                   /\ last' = Threw("updatePayloadConfigFile", "notfound", "none", FALSE)
                   /\ before' = <<>>
              ELSE /\ pc' = "backup"
                   /\ last' = NoCall
                   /\ before' = fs[found]
    /\ error' = "none" /\ configContent' = <<>>
    /\ UNCHANGED <<fs, orig, written, textVars, genVars, valVars, catVars>>

\* backupFile(configPath): the copy is made, or its failure is swallowed
BackupFile(ok) ==
    /\ pc = "backup"
    /\ fs' = IF ok /\ pathExists(fs, configPath)
             THEN [fs EXCEPT ![backupPath(configPath)] = fs[configPath]]
             ELSE fs
    /\ pc' = "read"
    /\ UNCHANGED <<configPath, configContent, error, last, calls, orig, written,
                   before, textVars, genVars, valVars, catVars>>

\* fs.readFile(configPath)
ReadFile(ok) ==
    /\ pc = "read"
    /\ IF ok
       THEN /\ configContent' = fs[configPath]
            /\ pc' = "update"
            /\ error' = error
       ELSE /\ configContent' = configContent
            /\ pc' = "catch"
            /\ error' = "read"
    /\ UNCHANGED <<fs, configPath, last, calls, orig, written, before, textVars, genVars, valVars, catVars>>

\* configContent = await this.updatePayloadConfig(configContent)
UpdateContent ==
    /\ pc = "update"
    /\ configContent' = updatePayloadConfig(configContent)
    /\ pc' = "write"
    /\ UNCHANGED <<fs, configPath, error, last, calls, orig, written, before,
                   textVars, genVars, valVars, catVars>>

\* fs.writeFile(configPath, configContent): it succeeds, fails before the file
\* is touched, or fails after the file was truncated
WriteFile(outcome) ==
    /\ pc = "write"
    /\ fs' = CASE outcome = "ok" -> [fs EXCEPT ![configPath] = configContent]
               [] outcome = "truncated" -> [fs EXCEPT ![configPath] = <<>>]
               [] OTHER -> fs
    /\ written' = IF outcome = "untouched" THEN written
                  ELSE FirstWrite(fs, written, configPath)
    /\ IF outcome = "ok"
       THEN /\ pc' = "idle"
            /\ last' = Returned("updatePayloadConfigFile")
            /\ error' = error
       ELSE /\ pc' = "catch"
            /\ last' = last
            /\ error' = "write"
    /\ configContent' = <<>>
    /\ UNCHANGED <<configPath, calls, orig, before, textVars, genVars, valVars, catVars>>

\* catch: with no backup in place the error is thrown on at once
Catch ==
    /\ pc = "catch"
    /\ IF pathExists(fs, backupPath(configPath))
       THEN /\ pc' = "restore"
            /\ UNCHANGED <<last, error>>
       ELSE /\ pc' = "idle"
            /\ last' = Threw("updatePayloadConfigFile", error, error, FALSE)
            /\ error' = "none"
    /\ configContent' = <<>>
    /\ UNCHANGED <<fs, configPath, calls, orig, written, before, textVars, genVars, valVars, catVars>>

Restore_skipped(ok) ==
    /\ pc = "restore"
    /\ last' = IF ok THEN Threw("updatePayloadConfigFile", error, error, TRUE)
               ELSE Threw("updatePayloadConfigFile", "copy", error, FALSE)
    /\ pc' = "idle" /\ error' = "none"
    /\ UNCHANGED <<fs, configPath, configContent, calls, orig, written, before,
                   textVars, genVars, valVars, catVars>>

\* a restore that moves the backup onto the file instead of copying it
Restore_moved(ok) ==
    /\ pc = "restore"
    /\ fs' = IF ok THEN [fs EXCEPT ![configPath] = fs[backupPath(configPath)],
                                   ![backupPath(configPath)] = Absent]
             ELSE fs
    /\ last' = IF ok THEN Threw("updatePayloadConfigFile", error, error, TRUE)
               ELSE Threw("updatePayloadConfigFile", "copy", error, FALSE)
    /\ pc' = "idle" /\ error' = "none"
    /\ UNCHANGED <<configPath, configContent, calls, orig, written, before,
                   textVars, genVars, valVars, catVars>>

\* fs.copy(backup, configPath), then throw error; a failing copy throws its own
Restore(ok) ==
    /\ pc = "restore"
    /\ fs' = IF ok THEN [fs EXCEPT ![configPath] = fs[backupPath(configPath)]]
             ELSE fs
    /\ last' = IF ok THEN Threw("updatePayloadConfigFile", error, error, TRUE)
               ELSE Threw("updatePayloadConfigFile", "copy", error, FALSE)
    /\ pc' = "idle" /\ error' = "none"
    /\ UNCHANGED <<configPath, configContent, calls, orig, written, before,
                   textVars, genVars, valVars, catVars>>

\* ------------------------------------------------ the installer's other files
\* `content: [${currentContent}, ...getShadcnContent()]`, or without the
\* current entries when there are none
newContent(currentContent) ==
    IF Trim(currentContent) # <<>>
    THEN <<"content", ":", "sp", "[">> \o currentContent
            \o <<",", "sp", "...", "getShadcnContent", "(", ")", "]">>
    ELSE <<"content", ":", "sp", "[", "...", "getShadcnContent", "(", ")", "]">>

\* the text updateTailwindConfig writes for the text it read
tailwindUpdate(content) ==
    LET c == IF ~Includes(content, "getShadcnContent")
             THEN CONTENT_FUNCTION \o <<"nl">> \o content
             ELSE content
        contentMatch == ListMatch(c, "content")
    IN  IF contentMatch # NoMatch /\ ~Includes(Capture(c, contentMatch), "getShadcnContent")
        THEN ReplaceMatch(c, contentMatch, newContent(Capture(c, contentMatch)))
        ELSE c

updateTailwindConfig(ok) ==
    /\ pc = "idle" /\ calls < MaxCalls
    /\ calls' = calls + 1
    /\ LET found == findConfigFile(fs, tailwindPaths)
       IN  IF found = null
           THEN /\ last' = Threw("updateTailwindConfig", "notfound", "none", FALSE)
                /\ UNCHANGED <<fs, written>>
           ELSE IF ok
           THEN /\ fs' = [fs EXCEPT ![found] = tailwindUpdate(fs[found])]
                /\ written' = FirstWrite(fs, written, found)
                /\ last' = Returned("updateTailwindConfig")
           ELSE /\ last' = Threw("updateTailwindConfig", "write", "none", FALSE)
                /\ UNCHANGED <<fs, written>>
    /\ UNCHANGED <<pc, configPath, configContent, error, orig, before, textVars, genVars, valVars, catVars>>

\* "Always write the new config, regardless of whether it exists"
updatePostCSSConfig(ok) ==
    /\ pc = "idle" /\ calls < MaxCalls
    /\ calls' = calls + 1
    /\ LET found == findConfigFile(fs, postcssPaths)
           target == IF found = null THEN File("postcss.config.js") ELSE found
       IN  IF ok
           THEN /\ fs' = [fs EXCEPT ![target] = POSTCSS_CONFIG]
                /\ written' = FirstWrite(fs, written, target)
                /\ last' = Returned("updatePostCSSConfig")
           ELSE /\ last' = Threw("updatePostCSSConfig", "write", "none", FALSE)
                /\ UNCHANGED <<fs, written>>
    /\ UNCHANGED <<pc, configPath, configContent, error, orig, before, textVars, genVars, valVars, catVars>>

\* --------------------------------------------------------------- ConfigHandler
\* createBackups with the backupPath put on the template object
createBackups_onTemplate ==
    /\ pc = "idle" /\ calls < MaxCalls
    /\ calls' = calls + 1
    /\ fs' = [p \in Paths |->
                IF \E i \in 1..Len(configs) :
                      /\ backupPath(configs[i].path) = p
                      /\ pathExists(fs, configs[i].path)
                THEN fs[<<p[1], "">>]
                ELSE fs[p]]
    /\ catalog' = [catalog EXCEPT !.config =
                      [t \in DOMAIN catalog.config |->
                          IF \E i \in 1..Len(handler) :
                                handler[i].template = t /\ pathExists(fs, handler[i].path)
                          THEN [name |-> catalog.config[t].name,
                                content |-> catalog.config[t].content,
                                backupPath |-> backupPath(File(t))]
                          ELSE catalog.config[t]]]
    /\ last' = Returned("createBackups")
    /\ UNCHANGED <<pc, configPath, configContent, error, orig, written, before,
                   textVars, genVars, valVars, handler, install, process, directory>>

\* every registered file that exists is copied to its backup path
createBackups ==
    /\ pc = "idle" /\ calls < MaxCalls
    /\ calls' = calls + 1
    /\ fs' = [p \in Paths |->
                IF \E i \in 1..Len(configs) :
                      /\ backupPath(configs[i].path) = p
                      /\ pathExists(fs, configs[i].path)
                THEN fs[<<p[1], "">>]
                ELSE fs[p]]
    /\ handler' = [i \in 1..Len(handler) |->
                     IF pathExists(fs, handler[i].path)
                     THEN [handler[i] EXCEPT !.backupPath = backupPath(handler[i].path)]
                     ELSE handler[i]]
    /\ last' = Returned("createBackups")
    /\ UNCHANGED <<pc, configPath, configContent, error, orig, written, before,
                   textVars, genVars, valVars, catalog, install, process, directory>>

\* an update that writes the template to every registered file
updateConfigs_all ==
    /\ pc = "idle" /\ calls < MaxCalls
    /\ calls' = calls + 1
    /\ LET updated == {configs[i].path : i \in 1..Len(configs)}
           template(p) == configs[CHOOSE i \in 1..Len(configs) : configs[i].path = p].template
       IN  /\ fs' = [p \in Paths |->
                        IF p \in updated THEN templateContent(template(p)) ELSE fs[p]]
           /\ written' = written \cup
                {[path |-> p, had |-> fs[p], bak |-> fs[backupPath(p)]] :
                    p \in {q \in updated : ~\E r \in written : r.path = q}}
    /\ last' = Returned("updateConfigs")
    /\ UNCHANGED <<pc, configPath, configContent, error, orig, before, textVars, genVars, valVars, catVars>>

\* every registered file that is missing or not valid receives its template
updateConfigs ==
    /\ pc = "idle" /\ calls < MaxCalls
    /\ calls' = calls + 1
    /\ LET updated == {configs[i].path : i \in {j \in 1..Len(configs) : needsWrite(fs, configs[j])}}
           template(p) == configs[CHOOSE i \in 1..Len(configs) : configs[i].path = p].template
       IN  /\ fs' = [p \in Paths |->
                        IF p \in updated THEN templateContent(template(p)) ELSE fs[p]]
           /\ written' = written \cup
                {[path |-> p, had |-> fs[p], bak |-> fs[backupPath(p)]] :
                    p \in {q \in updated : ~\E r \in written : r.path = q}}
    /\ last' = Returned("updateConfigs")
    /\ UNCHANGED <<pc, configPath, configContent, error, orig, before, textVars, genVars, valVars, catVars>>

Outcomes == {"ok", "untouched", "truncated"}

NextFs ==
    \/ CallUpdatePayloadConfigFile
    \/ \E ok \in BOOLEAN : BackupFile(ok)
    \/ \E ok \in BOOLEAN : ReadFile(ok)
    \/ UpdateContent
    \/ \E outcome \in Outcomes : WriteFile(outcome)
    \/ Catch
    \/ \E ok \in BOOLEAN : Restore(ok)
    \/ \E ok \in BOOLEAN : updateTailwindConfig(ok)
    \/ \E ok \in BOOLEAN : updatePostCSSConfig(ok)
    \/ createBackups
    \/ updateConfigs

SpecFs == InitFs /\ [][NextFs]_vars

\* ------------------------------------------ reading a text as its author does
\* These definitions state the claims: a list literal runs from its "[" to the
\* bracket that closes it, and its entries are separated by the commas that
\* stand outside every nested bracket.
Closer(t) == CASE t = "(" -> ")" [] t = "[" -> "]" [] t = "{" -> "}" [] OTHER -> ""

IsOpener(t) == t \in {"(", "[", "{"}
IsCloser(t) == t \in {")", "]", "}"}

\* brackets opened less brackets closed in s[a..b]
Depth(s, a, b) ==
    Cardinality({k \in a..b : IsOpener(s[k])}) - Cardinality({k \in a..b : IsCloser(s[k])})

\* the index of the bracket that closes the one opened at o; 0 when there is
\* none or it is of another kind
MatchClose(s, o) ==
    LET E == {e \in (o + 1)..Len(s) : Depth(s, o, e) = 0}
    IN  IF E = {} THEN 0
        ELSE IF s[Min(E)] = Closer(s[o]) THEN Min(E) ELSE 0

\* every bracket of s[a..b] is closed in it by one of its kind, and closes one
WellNested(s, a, b) ==
    /\ \A i \in a..b : IsOpener(s[i]) => MatchClose(s, i) \in (i + 1)..b
    /\ \A e \in a..b : IsCloser(s[e]) =>
           \E i \in a..(e - 1) : IsOpener(s[i]) /\ MatchClose(s, i) = e

\* the "[" of the first  plugins : [  of the text; 0 when there is none
ListOpen(s) ==
    LET I == {i \in 1..Len(s) :
                 /\ s[i] = "plugins"
                 /\ SkipWs(s, i + 1) <= Len(s)
                 /\ s[SkipWs(s, i + 1)] = ":"
                 /\ SkipWs(s, SkipWs(s, i + 1) + 1) <= Len(s)
                 /\ s[SkipWs(s, SkipWs(s, i + 1) + 1)] = "["}
    IN  IF I = {} THEN 0 ELSE SkipWs(s, SkipWs(s, Min(I) + 1) + 1)

ListClose(s) == IF ListOpen(s) = 0 THEN 0 ELSE MatchClose(s, ListOpen(s))

\* the text holds a plugins list whose brackets nest
HasList(s) == ListClose(s) # 0 /\ WellNested(s, ListOpen(s), ListClose(s))

\* the text between the brackets of the plugins list
ListInner(s) == Slice(s, ListOpen(s) + 1, ListClose(s) - 1)

\* how many brackets are open before inner[i]
DepthBefore(inner, i) ==
    Cardinality({k \in 1..(i - 1) : IsOpener(inner[k])})
        - Cardinality({k \in 1..(i - 1) : IsCloser(inner[k])})

\* the separators of a list: its commas outside every nested bracket
TopCommas(inner) ==
    {i \in 1..Len(inner) : inner[i] = "," /\ DepthBefore(inner, i) = 0}

\* the entries of a list, an empty one where two separators meet
Entries(inner) ==
    LET cuts == {0} \cup TopCommas(inner) \cup {Len(inner) + 1}
        cut(k) == CHOOSE x \in cuts : Cardinality({y \in cuts : y < x}) = k
    IN  IF Trim(inner) = <<>> THEN <<>>
        ELSE [k \in 1..(Cardinality(cuts) - 1) |->
                 Trim(Slice(inner, cut(k - 1) + 1, cut(k) - 1))]

IsEntry(e) == e # <<>>

NonEmpty(entries) == SelectSeq(entries, IsEntry)

Count(s, t) == Cardinality({i \in 1..Len(s) : s[i] = t})

StartsWith(s, prefix) == Len(s) >= Len(prefix) /\ SubSeq(s, 1, Len(prefix)) = prefix

\* the list names the plugin (by its import identifier or by the alias)
MentionsPlugin(inner) == Includes(inner, pluginName) \/ Includes(inner, "shadcnPlugin")

\* the list holds a call of the import identifier or of the alias
ContainsInvocation(inner) ==
    \E i \in 1..Len(inner) :
        /\ inner[i] \in {pluginName, "shadcnPlugin"}
        /\ SkipWs(inner, i + 1) <= Len(inner)
        /\ inner[SkipWs(inner, i + 1)] = "("

\* the text imports or requires the import identifier from the package
ImportsPlugin(s) ==
    \/ \E i \in 1..Len(s) : \E f \in (i + 1)..Len(s) :
          /\ s[i] = "import" /\ s[f] = "from"
          /\ \E n \in (i + 1)..(f - 1) : s[n] = pluginName
          /\ \A k \in (i + 1)..(f - 1) : s[k] \notin {";", "import"}
          /\ SkipWs(s, f + 1) <= Len(s)
          /\ s[SkipWs(s, f + 1)] \in {PkgSingle, PkgDouble}
    \/ \E n \in 1..Len(s) : \E r \in (n + 1)..Len(s) :
          /\ s[n] = pluginName /\ s[r] = "require"
          /\ \A k \in (n + 1)..(r - 1) : s[k] # ";"
          /\ r + 2 <= Len(s) /\ s[r + 1] = "("
          /\ s[r + 2] \in {PkgSingle, PkgDouble}

\* the CommonJS form of the import line
requireStatement ==
    << "const", "sp", "{", "sp", pluginName, "sp", "}", "sp", "=", "sp",
       "require", "(", PkgSingle, ")", ";", "nl" >>

\* -------------------------------------------------------------- the claims

\* C1: patching is idempotent: applying updatePayloadConfig to its own output
\* returns that output, token for token (stated here for the texts whose
\* brackets nest, which are among "every configuration content").
C1_Idempotent ==
    (phase = "repatched" /\ WellNested(doc, 1, Len(doc))) => repatched = patched

\* C6: a plugins list with entries e1..en that does not name the plugin is
\* patched to the list e1, ..., en, snippet: the same entries in the same
\* order, the snippet last, no empty entry (no doubled or trailing separator).
C6_AppendsAfterEntries ==
    (/\ phase = "patched"
     /\ HasList(doc)
     /\ NonEmpty(Entries(ListInner(doc))) # <<>>
     /\ ~MentionsPlugin(ListInner(doc)))
    => /\ HasList(patched)
       /\ Entries(ListInner(patched))
              = NonEmpty(Entries(ListInner(doc))) \o <<Trim(getPluginConfig)>>

\* the plugins list of the text is empty: nothing but whitespace between its brackets
EmptyList(s) == HasList(s) /\ Trim(ListInner(s)) = <<>>

\* C7: patching an empty plugins list (with or without whitespace between the
\* brackets) yields a list that holds the snippet and nothing else: no
\* separator stands before it.
C7_EmptyListGetsSnippet ==
    (phase = "patched" /\ EmptyList(doc))
    => HasList(patched) /\ ListInner(patched) = getPluginConfig

C7_Witness ==
    /\ phase = "patched"
    /\ EmptyList(doc)
    /\ ListInner(doc) # <<>>
    /\ ListInner(patched) = getPluginConfig

\* C8: when the plugins list already holds a call of the import identifier or
\* of the alias shadcnPlugin, whatever its arguments, the patch leaves the text
\* of the list as it is and appends nothing.
C8_ListUnchanged ==
    (phase = "patched" /\ HasList(doc) /\ ContainsInvocation(ListInner(doc)))
    => HasList(patched) /\ ListInner(patched) = ListInner(doc)

\* C9: when the text already imports or requires the import identifier from
\* the package, the patch prepends no import line.
C9_NoSecondImport ==
    (phase = "patched" /\ ImportsPlugin(doc))
    => Count(patched, "import") = Count(doc, "import")

\* C10: when the text holds no import of the identifier, exactly one import
\* line is prepended, in the module style of the text: an import statement
\* for an ESM text, a require form for a CommonJS text.
C10_ImportInModuleStyle ==
    (phase = "patched" /\ ~ImportsPlugin(doc))
    => /\ format(doc) = "esm" =>
              /\ StartsWith(patched, importStatement)
              /\ Count(patched, "import") = Count(doc, "import") + 1
       /\ format(doc) = "commonjs" =>
              /\ StartsWith(patched, requireStatement)
              /\ Count(patched, "require") = Count(doc, "require") + 1
              /\ Count(patched, "import") = Count(doc, "import")

\* ------------------------------------------------- claims about file sessions
AfterPayloadCall ==
    /\ pc = "idle" /\ last.op = "updatePayloadConfigFile" /\ configPath # null

\* C2: for every configuration file that existed and was written, the backup
\* next to it held, at the first write, exactly the text the file then had,
\* and it holds that text ever after.
C2_BackupBeforeFirstWrite ==
    \A w \in written :
        w.had # Absent => w.bak = w.had /\ fs[backupPath(w.path)] = w.had

C4_OriginalSurvives ==
    (AfterPayloadCall /\ last.status = "throw" /\ last.caught # "none")
        => \/ fs[configPath] = before
           \/ fs[backupPath(configPath)] = before

NoAnchor(content) == ~Includes(content, "plugins") /\ ~Includes(content, "buildConfig")

\* C5: when the file mentions neither a plugins list nor buildConfig and no
\* file operation fails, updatePayloadConfigFile raises an error and the file
\* is afterwards what it was.
C5_NoAnchorNoWrite ==
    (AfterPayloadCall /\ last.caught = "none" /\ NoAnchor(before))
        => /\ last.status = "throw"
           /\ fs[configPath] = before

\* ------------------------------------------- claims about the builder call
\* the "{" of the argument object of the first buildConfig call; 0 when there
\* is none
BuilderOpen(s) ==
    LET I == {i \in 1..Len(s) :
                 /\ s[i] = "buildConfig"
                 /\ SkipWs(s, i + 1) <= Len(s)
                 /\ s[SkipWs(s, i + 1)] = "("
                 /\ SkipWs(s, SkipWs(s, i + 1) + 1) <= Len(s)
                 /\ s[SkipWs(s, SkipWs(s, i + 1) + 1)] = "{"}
    IN  IF I = {} THEN 0 ELSE SkipWs(s, SkipWs(s, Min(I) + 1) + 1)

BuilderClose(s) == IF BuilderOpen(s) = 0 THEN 0 ELSE MatchClose(s, BuilderOpen(s))

\* the text holds a buildConfig call whose argument object nests and which
\* the ")" of the call follows
HasBuilder(s) ==
    /\ BuilderClose(s) # 0
    /\ WellNested(s, BuilderOpen(s), BuilderClose(s))
    /\ SkipWs(s, BuilderClose(s) + 1) <= Len(s)
    /\ s[SkipWs(s, BuilderClose(s) + 1)] = ")"

pluginsEntry == <<"plugins", ":", "sp", "[">> \o getPluginConfig \o <<"]">>

\* C11: with a buildConfig call and no plugins list, the patched text is the
\* input with the entry plugins: [snippet] put immediately before the closing
\* brace of the call's argument object, and at most the import line in front.
C11_InsertedBeforeClosingBrace ==
    (phase = "patched" /\ ~Includes(doc, "plugins") /\ HasBuilder(doc))
        => LET c == BuilderClose(doc)
               tail == Len(doc) - c + 1
           IN  \E pre \in {<<>>, importStatement} :
                  /\ Len(patched) >= Len(pre) + Len(doc) + Len(pluginsEntry)
                  /\ Slice(patched, 1, Len(pre) + c - 1) = pre \o Slice(doc, 1, c - 1)
                  /\ Slice(patched, Len(patched) - tail + 1, Len(patched))
                        = Slice(doc, c, Len(doc))
                  /\ Trim(Slice(patched, Len(pre) + c, Len(patched) - tail))
                        \in {pluginsEntry, pluginsEntry \o <<",">>}

\* C12: the plugins list of a patched text has no empty place between two
\* separators, none after its opening bracket and none before its closing one.
C12_NoStraySeparator ==
    (phase = "patched" /\ HasList(doc) /\ HasList(patched))
        => \A k \in 1..Len(Entries(ListInner(patched))) :
              Entries(ListInner(patched))[k] # <<>>

\* ------------------------------------------------------- names, by character
\* A name is a sequence of characters.  The alphabet has a lower-case and an
\* upper-case letter, a digit and the three kinds of separator the converters
\* know: hyphen, underscore (a word character for \w and \b) and blank.
MaxNameLen == 3

Alphabet == {"a", "A", "1", "-", "_", " "}

IsUpper(c) == c = "A"

IsLetter(c) == c \in {"a", "A"}

IsDigit(c) == c = "1"

\* \w
IsWord(c) == IsLetter(c) \/ IsDigit(c) \/ c = "_"

\* [-_\s]
IsSeparator(c) == c \in {"-", "_", " "}

\* a conversion that lowers where toUpperCase raises
toUpperCase_lower(c) == IF c = "A" THEN "a" ELSE c

toUpperCase(c) == IF c = "a" THEN "A" ELSE c

toLowerCase(c) == IF c = "A" THEN "a" ELSE c

\* the characters of marks that are not the empty string, in their order
Compact(marks) ==
    LET kept == {i \in 1..Len(marks) : marks[i] # ""}
        nth(k) == CHOOSE i \in kept : Cardinality({j \in kept : j <= i}) = k
    IN  [k \in 1..Cardinality(kept) |-> marks[nth(k)]]

\* String.prototype.trim of a name
TrimName(str) ==
    LET I == {i \in 1..Len(str) : str[i] # " "}
    IN  IF I = {} THEN <<>> ELSE SubSeq(str, Min(I), Max(I))

\* .replace(/[-_\s]+(.)?/g, (_, c) => (c ? c.toUpperCase() : ""))
\*  .replace(/^(.)/, (c) => c.toUpperCase())
\* every run of separators goes, the character after it is upper-cased, and
\* then the first character of the result is
pascalCase(str) ==
    LET joined == Compact([i \in 1..Len(str) |->
                      IF IsSeparator(str[i]) THEN ""
                      ELSE IF i > 1 /\ IsSeparator(str[i - 1]) THEN toUpperCase(str[i])
                      ELSE str[i]])
    IN  [i \in 1..Len(joined) |-> IF i = 1 THEN toUpperCase(joined[i]) ELSE joined[i]]

\* a match of /(?:^\w|[A-Z]|\b\w)/g at index i: a word character at the start
\* of the string or after a character that is not one, or an upper-case letter
CaseMatch(str, i) ==
    \/ IsUpper(str[i])
    \/ IsWord(str[i]) /\ (i = 1 \/ ~IsWord(str[i - 1]))

\* .replace(/\s+/g, "").replace(/[-_]/g, "")
StripSeparators(str) ==
    Compact([i \in 1..Len(str) |-> IF IsSeparator(str[i]) THEN "" ELSE str[i]])

camelCase(str) ==
    StripSeparators([i \in 1..Len(str) |->
        IF CaseMatch(str, i)
        THEN IF i = 1 THEN toLowerCase(str[i]) ELSE toUpperCase(str[i])
        ELSE str[i]])

toPascalCase(str) ==
    StripSeparators([i \in 1..Len(str) |->
        IF CaseMatch(str, i) THEN toUpperCase(str[i]) ELSE str[i]])

\* /^[A-Z][a-zA-Z0-9]*$/.test(name)
IsPascalIdentifier(name) ==
    /\ name # <<>>
    /\ IsUpper(name[1])
    /\ \A i \in 1..Len(name) : IsLetter(name[i]) \/ IsDigit(name[i])

\* the inputs typed at the name prompt have at most MaxPromptLen characters
MaxPromptLen == 2

PromptInputs == UNION {[1..n -> Alphabet] : n \in 0..MaxPromptLen}

\* the names of at most MaxNameLen characters
CandidateNames == UNION {[1..n -> Alphabet] : n \in 0..MaxNameLen}

\* --------------------------------------------------- the collection templates
\* the keys of COLLECTION_TEMPLATES, in their order
templateKeys == <<"posts", "pages", "courses", "products">>

\* toPascalCase of a lower-case directory word (a template key or the name of
\* an existing collection's directory): its first letter in upper case
toPascalCaseWord(word) ==
    CASE word = "posts" -> "Posts"
      [] word = "pages" -> "Pages"
      [] word = "courses" -> "Courses"
      [] word = "products" -> "Products"

\* camelCase of such a word: the word itself
camelCaseWord(word) == word

\* the characters of a name as one word (names are at most six characters)
Ch(name, i) == IF i <= Len(name) THEN name[i] ELSE ""

Word(name) ==
    Ch(name, 1) \o Ch(name, 2) \o Ch(name, 3) \o Ch(name, 4) \o Ch(name, 5) \o Ch(name, 6)

\* one field object of a template, written as a single token unless it names
\* a collection
Field(name) == <<"nl", "sp", "{ name: \"" \o name \o "\", ... }", ",">>

RelationField(name, relationTo) ==
    << "nl", "sp", "{", "sp", "name", ":", "sp", "dq", name, "dq", ",", "sp",
       "relationTo", ":", "sp", "dq", relationTo, "dq", "sp", "}", "," >>

\* the switch of generateCollectionCode: the fields of each template
fields(templateKey) ==
    CASE templateKey = "posts" ->
            Field("title") \o Field("slug") \o Field("publishedDate") \o Field("content")
                \o Field("excerpt") \o RelationField("author", "users")
                \o Field("tags") \o Field("status")
      [] templateKey = "pages" ->
            Field("title") \o Field("slug") \o Field("layout") \o Field("meta")
                \o RelationField("parent", "pages")
      [] templateKey = "courses" ->
            Field("title") \o Field("slug") \o Field("description") \o Field("modules")
                \o RelationField("instructor", "users") \o Field("duration")
                \o Field("level")
      [] templateKey = "products" ->
            Field("title") \o Field("slug") \o Field("price") \o Field("description")
                \o RelationField("images", "media")
                \o RelationField("categories", "categories") \o Field("variants")
                \o Field("inventoryCount") \o Field("status")
      [] OTHER -> Field("title")

\* generateCollectionCode, for a type name and a slug already made into words
collectionCode(typeName, slug, templateKey) ==
    << "import { CollectionConfig } from \"payload/types\";", "nl", "nl",
       "const", "sp", typeName, ":", "sp", "CollectionConfig", "sp", "=", "sp", "{", "nl",
       "sp", "slug", ":", "sp", "dq", slug, "dq", ",", "nl",
       "sp", "admin: { ... }", ",", "nl",
       "sp", "access: { ... }", ",", "nl",
       "sp", "fields", ":", "sp", "[" >>
      \o fields(templateKey)
      \o << "nl", "sp", "]", ",", "nl", "}", ";", "nl", "nl",
            "export default", "sp", typeName, ";", "nl" >>

\* generateCollectionCode(collectionName, templateKey)
generateCollectionCode(name, templateKey) ==
    collectionCode(Word(name), Word(camelCase(name)), templateKey)

\* --------------------------------------------------------------- file trees
\* A file is named by the directory it is in (a sequence of names), its stem
\* and its extension; a tree is a function from file names to contents.
FileName(dir, stem, ext) == [dir |-> dir, stem |-> stem, ext |-> ext]

collectionsDir == <<"src", "collections">>

templatesDir == <<".payload", "templates">>

\* the files of tree t that are in directory d or below it
Under(t, d) ==
    {k \in DOMAIN t : Len(k.dir) >= Len(d) /\ SubSeq(k.dir, 1, Len(d)) = d}

\* tree t with the files of u written over it
Overlay(t, u) ==
    [k \in DOMAIN t \cup DOMAIN u |-> IF k \in DOMAIN u THEN u[k] ELSE t[k]]

\* file k of directory from, as it is named under directory to
Moved(k, from, to) ==
    FileName(to \o SubSeq(k.dir, Len(from) + 1, Len(k.dir)), k.stem, k.ext)

\* fs.copy(from, to, {filter}): the files under from that the filter keeps
CopyTree(t, from, to, kept) ==
    Overlay(t, [m \in {Moved(k, from, to) : k \in kept} |->
                  t[CHOOSE k \in kept : Moved(k, from, to) = m]])

\* a test that takes every file for a text file
IsTextFile_all(k) == TRUE

\* file.endsWith(".ts") || file.endsWith(".js")
IsTextFile(k) == k.ext \in {".ts", ".js"}

\* !src.endsWith("template.json")
NotTemplateJson(k) == ~(k.stem = "template" /\ k.ext = ".json")

\* fs.readdir(dir), as far as the loops use it: the files directly in dir
\* (a directory entry has neither extension)
ReadDir(t, dir) == {k \in DOMAIN t : k.dir = dir}

\* content.replace(new RegExp(name, "g"), newName)
ReplaceName(content, name, newName) ==
    [i \in 1..Len(content) |-> IF content[i] = name THEN newName ELSE content[i]]

\* content.replace(new RegExp(`slug: "${old}"`, "g"), `slug: "${new}"`)
ReplaceSlug(content, old, new) ==
    [i \in 1..Len(content) |->
        IF /\ i >= 5 /\ i + 1 <= Len(content)
           /\ SubSeq(content, i - 4, i + 1) = <<"slug", ":", "sp", "dq", old, "dq">>
        THEN new ELSE content[i]]

\* ------------------------------------------------- generateCollectionCommand
\* a directory path for a name: path.join drops an empty last segment
Seg(word) == IF word = "" THEN <<>> ELSE <<word>>

\* the validate callback of the name prompt
validateName(input) ==
    IF TrimName(input) = <<>> THEN "required"
    ELSE IF ~IsPascalIdentifier(pascalCase(TrimName(input))) THEN "invalid"
    ELSE "true"

\* template.json as copyTemplatesToLocal writes it
templateJson == << "{ name, description }" >>

\* a text file of a sub-directory, and a file that is not text, both of which
\* happen to hold the type name
nestedText(typeName) == << "// fields of", "sp", typeName, "nl" >>

binaryBytes(typeName) == << "PNG", typeName, "IEND" >>

\* a customised collection directory: index.ts, fields/title.ts and logo.png
customDir(dir, word) ==
    [k \in { FileName(dir, "index", ".ts"),
             FileName(dir \o <<"fields">>, "title", ".ts"),
             FileName(dir, "logo", ".png") } |->
        IF k.ext = ".png" THEN binaryBytes(toPascalCaseWord(word))
        ELSE IF k.dir = dir
             THEN collectionCode(toPascalCaseWord(word), camelCaseWord(word), word)
             ELSE nestedText(toPascalCaseWord(word))]

\* the project before the run: the collection posts, and with local templates
\* in use the template posts
existingCollection == customDir(collectionsDir \o <<"posts">>, "posts")

localTemplate ==
    Overlay(customDir(templatesDir \o <<"posts">>, "posts"),
            [k \in {FileName(templatesDir \o <<"posts">>, "template", ".json")} |->
                templateJson])

\* what copyTemplatesToLocal writes: index.ts and template.json for every key
builtinTemplates ==
    [k \in { FileName(templatesDir \o <<templateKeys[i]>>, f[1], f[2]) :
               i \in 1..Len(templateKeys), f \in {<<"index", ".ts">>, <<"template", ".json">>} }
        |-> IF k.ext = ".json" THEN templateJson
            ELSE collectionCode(toPascalCaseWord(k.dir[3]), camelCaseWord(k.dir[3]), k.dir[3])]

\* the template directories that hold a template.json
localTemplates(t) ==
    { k.dir[3] : k \in { f \in DOMAIN t : /\ Len(f.dir) = 3
                                           /\ SubSeq(f.dir, 1, 2) = templatesDir
                                           /\ f.stem = "template"
                                           /\ f.ext = ".json" } }

\* findExistingCollections: the directories directly in collectionsDir
findExistingCollections(t) ==
    { SubSeq(k.dir, 1, 3) : k \in { f \in Under(t, collectionsDir) : Len(f.dir) >= 3 } }

\* fs.ensureDir(d): the directories the run has created, d added when new
ensureDir(ds, t, d) == IF d \in ds \/ Under(t, d) # {} THEN ds ELSE ds \cup {d}

\* generateCollectionFiles: index.ts of the collection directory
generateCollectionFiles(t, name, templateKey, collectionDir) ==
    Overlay(t, [k \in {FileName(collectionDir, "index", ".ts")} |->
                  generateCollectionCode(name, templateKey)])

\* generateFromLocalTemplate: copy but template.json, then rewrite the text
\* files that readdir lists
generateFromLocalTemplate(t, name, templateKey, templatePath, collectionDir) ==
    LET copied == CopyTree(t, templatePath, collectionDir,
                           {k \in Under(t, templatePath) : NotTemplateJson(k)})
        files  == {k \in ReadDir(copied, collectionDir) : IsTextFile(k)}
    IN  [k \in DOMAIN copied |->
            IF k \in files
            THEN ReplaceSlug(ReplaceName(copied[k], toPascalCaseWord(templateKey), Word(name)),
                             camelCaseWord(templateKey), Word(camelCase(name)))
            ELSE copied[k]]

\* cloneCollection: copy everything, then rewrite the text files readdir lists
cloneCollection(t, sourcePath, newCollectionName, targetDir) ==
    LET copied == CopyTree(t, sourcePath, targetDir, Under(t, sourcePath))
        files  == {k \in ReadDir(copied, targetDir) : IsTextFile(k)}
    IN  [k \in DOMAIN copied |->
            IF k \in files
            THEN ReplaceName(copied[k], toPascalCaseWord(sourcePath[Len(sourcePath)]),
                             Word(newCollectionName))
            ELSE copied[k]]

InitGen ==
    /\ Loaded
    /\ NotInstalling
    /\ NotEditing
    /\ argName \in CandidateNames
    /\ collectionName = <<>> /\ pascalCaseName = <<>>
    /\ step = "start" /\ prompted = <<>> /\ answer = ""
    /\ useLocal \in BOOLEAN
    /\ tree = IF useLocal THEN Overlay(existingCollection, localTemplate)
              ELSE existingCollection
    /\ treeBefore = tree
    /\ dirs = {} /\ made = NoRun
    /\ doc = <<>> /\ typed = 0 /\ stage = "head" /\ phase = "off"
    /\ patched = <<>> /\ repatched = <<>>
    /\ NoSession
    /\ NothingChecked

\* shouldCopyTemplates asks and the answer is yes: copyTemplatesToLocal
CopyTemplatesToLocal(updated) ==
    /\ step = "start"
    /\ ~useLocal
    /\ Under(tree, templatesDir) = {}
    /\ dirs' = dirs \cup {templatesDir}
                    \cup {templatesDir \o <<templateKeys[i]>> : i \in 1..Len(templateKeys)}
    /\ tree' = Overlay(tree, builtinTemplates)
    /\ useLocal' = updated
    /\ step' = "name"
    /\ UNCHANGED <<argName, collectionName, pascalCaseName, prompted, answer,
                   treeBefore, made, textVars, fsVars, valVars, catVars>>

\* shouldCopyTemplates is false
DeclineCopy ==
    /\ step = "start"
    /\ step' = "name"
    /\ UNCHANGED <<argName, collectionName, pascalCaseName, prompted, answer,
                   useLocal, tree, treeBefore, dirs, made, textVars, fsVars, valVars, catVars>>

\* the name was given on the command line: no prompt, straight to pascalCaseName
UseArgument ==
    /\ step = "name"
    /\ argName # <<>>
    /\ collectionName' = argName
    /\ pascalCaseName' = pascalCase(argName)
    /\ step' = "type"
    /\ UNCHANGED <<argName, prompted, answer, useLocal, tree, treeBefore, dirs,
                   made, textVars, fsVars, valVars, catVars>>

\* the name prompt: an input that validate refuses is asked for again
PromptName(input) ==
    /\ step = "name"
    /\ argName = <<>>
    /\ prompted' = input
    /\ answer' = validateName(input)
    /\ IF validateName(input) = "true"
       THEN /\ collectionName' = TrimName(input)
            /\ pascalCaseName' = pascalCase(TrimName(input))
            /\ step' = "type"
       ELSE UNCHANGED <<collectionName, pascalCaseName, step>>
    /\ UNCHANGED <<argName, useLocal, tree, treeBefore, dirs, made, textVars, fsVars, valVars, catVars>>

\* generationType "template": generateFromTemplate with the chosen template
GenerateFromTemplate(key) ==
    LET local == useLocal /\ localTemplates(tree) # {}
        collectionDir == collectionsDir \o Seg(Word(camelCase(pascalCaseName)))
        templatePath == templatesDir \o <<key>>
    IN  /\ step = "type"
        /\ key \in (IF local THEN localTemplates(tree) ELSE Range(templateKeys))
        /\ dirs' = ensureDir(ensureDir(dirs, tree, collectionsDir), tree, collectionDir)
        /\ tree' = IF local
                   THEN generateFromLocalTemplate(tree, pascalCaseName, key,
                                                  templatePath, collectionDir)
                   ELSE generateCollectionFiles(tree, pascalCaseName, key, collectionDir)
        /\ treeBefore' = tree
        /\ made' = [kind |-> IF local THEN "local" ELSE "builtin", key |-> key,
                    from |-> IF local THEN templatePath ELSE <<>>, to |-> collectionDir,
                    result |-> "resolved"]
        /\ step' = "done"
        /\ UNCHANGED <<argName, collectionName, pascalCaseName, prompted, answer,
                       useLocal, textVars, fsVars, valVars, catVars>>

\* generationType "clone": cloneExistingCollection with the chosen source
CloneExistingCollection(sourceCollection) ==
    LET targetDir == collectionsDir \o Seg(Word(camelCase(pascalCaseName)))
    IN  /\ step = "type"
        /\ sourceCollection \in findExistingCollections(tree)
        /\ dirs' = ensureDir(dirs, tree, targetDir)
        /\ tree' = cloneCollection(tree, sourceCollection, pascalCaseName, targetDir)
        /\ treeBefore' = tree
        /\ made' = [kind |-> "clone", key |-> sourceCollection[Len(sourceCollection)],
                    from |-> sourceCollection, to |-> targetDir,
                    result |-> "resolved"]
        /\ step' = "done"
        /\ UNCHANGED <<argName, collectionName, pascalCaseName, prompted, answer,
                       useLocal, textVars, fsVars, valVars, catVars>>

\* a copy and rewrite that stopped partway: the files of copied have arrived,
\* and of them the files of rewritten have had their names replaced
Partial(t, from, to, copied, rewritten, old, new, oldSlug, newSlug) ==
    LET arrived == CopyTree(t, from, to, copied)
        files   == {Moved(k, from, to) : k \in rewritten}
    IN  [k \in DOMAIN arrived |->
            IF k \in files
            THEN ReplaceSlug(ReplaceName(arrived[k], old, new), oldSlug, newSlug)
            ELSE arrived[k]]

\* generateFromTemplate with an error thrown inside its try block: the catch
\* stops the spinner and logs the message, and the function returns
GenerateFromTemplateFails(key) ==
    LET local == useLocal /\ localTemplates(tree) # {}
        collectionDir == collectionsDir \o Seg(Word(camelCase(pascalCaseName)))
        templatePath == templatesDir \o <<key>>
        kept == {k \in Under(tree, templatePath) : NotTemplateJson(k)}
    IN  /\ step = "type"
        /\ key \in (IF local THEN localTemplates(tree) ELSE Range(templateKeys))
        /\ dirs' = ensureDir(ensureDir(dirs, tree, collectionsDir), tree, collectionDir)
        /\ IF local
           THEN \E copied \in SUBSET kept :
                  \E rewritten \in SUBSET {k \in copied : IsTextFile(k)} :
                    /\ rewritten # {} => copied = kept
                    /\ tree' = Partial(tree, templatePath, collectionDir, copied, rewritten,
                                       toPascalCaseWord(key), Word(pascalCaseName),
                                       camelCaseWord(key), Word(camelCase(pascalCaseName)))
           ELSE tree' = tree
        /\ treeBefore' = tree
        /\ made' = [kind |-> IF local THEN "local failed" ELSE "builtin failed",
                    key |-> key,
                    from |-> IF local THEN templatePath ELSE <<>>, to |-> collectionDir,
                    result |-> "resolved"]
        /\ step' = "done"
        /\ UNCHANGED <<argName, collectionName, pascalCaseName, prompted, answer,
                       useLocal, textVars, fsVars, valVars, catVars>>

\* cloneExistingCollection with an error thrown inside its try block
CloneExistingCollectionFails(sourceCollection) ==
    LET targetDir == collectionsDir \o Seg(Word(camelCase(pascalCaseName)))
        kept == Under(tree, sourceCollection)
        old == toPascalCaseWord(sourceCollection[Len(sourceCollection)])
    IN  /\ step = "type"
        /\ sourceCollection \in findExistingCollections(tree)
        /\ dirs' = ensureDir(dirs, tree, targetDir)
        /\ \E copied \in SUBSET kept :
             \E rewritten \in SUBSET {k \in copied : IsTextFile(k)} :
               /\ rewritten # {} => copied = kept
               /\ tree' = Partial(tree, sourceCollection, targetDir, copied, rewritten,
                                  old, Word(pascalCaseName), old, old)
        /\ treeBefore' = tree
        /\ made' = [kind |-> "clone failed", key |-> sourceCollection[Len(sourceCollection)],
                    from |-> sourceCollection, to |-> targetDir, result |-> "resolved"]
        /\ step' = "done"
        /\ UNCHANGED <<argName, collectionName, pascalCaseName, prompted, answer,
                       useLocal, textVars, fsVars, valVars, catVars>>

\* the directories a collection to clone may be in
SourceChoices == {collectionsDir \o <<templateKeys[i]>> : i \in 1..Len(templateKeys)}

NextGen ==
    \/ \E updated \in BOOLEAN : CopyTemplatesToLocal(updated)
    \/ DeclineCopy
    \/ UseArgument
    \/ \E input \in PromptInputs : PromptName(input)
    \/ \E key \in Range(templateKeys) : GenerateFromTemplate(key)
    \/ \E sourceCollection \in SourceChoices : CloneExistingCollection(sourceCollection)
    \/ \E key \in Range(templateKeys) : GenerateFromTemplateFails(key)
    \/ \E sourceCollection \in SourceChoices : CloneExistingCollectionFails(sourceCollection)

SpecGen == InitGen /\ [][NextGen]_vars

\* ------------------------------------------------------ claims on scaffolding
\* the name the run was given: the argument, or else the latest prompt input
NameGiven == IF argName # <<>> THEN argName ELSE TrimName(prompted)

HasNameGiven == argName # <<>> \/ answer # ""

\* the files of the collections directory are as they were, and the run has
\* created no directory there
CollectionsUntouched ==
    /\ \A d \in dirs : ~(Len(d) >= Len(collectionsDir)
                          /\ SubSeq(d, 1, Len(collectionsDir)) = collectionsDir)
    /\ \A k \in Under(tree, collectionsDir) :
          k \in DOMAIN treeBefore /\ tree[k] = treeBefore[k]

\* C13: a name whose PascalCase form is not an identifier, given as argument
\* or typed at the prompt, is rejected: it never becomes the collection name,
\* nothing is generated for it, and no directory or file of the collections
\* directory is created or written.
C13_InvalidNameTouchesNothing ==
    (HasNameGiven /\ ~IsPascalIdentifier(pascalCase(NameGiven)))
        => /\ made = NoRun
           /\ CollectionsUntouched

\* a name with only its first character in lower case
LowerFirst(name) ==
    [i \in 1..Len(name) |-> IF i = 1 THEN toLowerCase(name[i]) ELSE name[i]]

\* C14: in a run that has generated files, the PascalCase name is an
\* identifier (an upper-case letter, then letters and digits) and the camelCase
\* name of the directory and the slug is that name with only its first
\* character in lower case.
C14_DerivedNamesWellFormed ==
    made # NoRun
        => /\ IsPascalIdentifier(pascalCaseName)
           /\ camelCase(pascalCaseName) = LowerFirst(pascalCaseName)

\* the first character of a token: not a separator, and at the start of the
\* name or after a separator
TokenStart(name, i) ==
    ~IsSeparator(name[i]) /\ (i = 1 \/ IsSeparator(name[i - 1]))

\* the tokens of a name put together, each with its first character in upper
\* case
TokensCapitalised(name) ==
    Compact([i \in 1..Len(name) |->
        IF IsSeparator(name[i]) THEN ""
        ELSE IF TokenStart(name, i) THEN toUpperCase(name[i])
        ELSE name[i]])

\* the same, the first token with its first character in lower case
TokensCamel(name) ==
    LET starts == {i \in 1..Len(name) : TokenStart(name, i)}
    IN  Compact([i \in 1..Len(name) |->
            IF IsSeparator(name[i]) THEN ""
            ELSE IF TokenStart(name, i)
                 THEN IF i = Min(starts) THEN toLowerCase(name[i]) ELSE toUpperCase(name[i])
                 ELSE name[i]])

\* C15: for the name a run has taken (the argument, or the trimmed prompt
\* input), the inline converter and toPascalCase both give the tokens (split
\* on every run of hyphens, underscores and blanks) capitalised and
\* concatenated, and camelCase gives the same with the first token in lower
\* case.
C15_ConvertersSplitOnSeparators ==
    step \in {"type", "done"}
        => /\ pascalCaseName = TokensCapitalised(collectionName)
           /\ toPascalCase(collectionName) = TokensCapitalised(collectionName)
           /\ camelCase(collectionName) = TokensCamel(collectionName)

\* C16: a name that is already an identifier (an upper-case letter, then
\* letters and digits) is left as it is by the inline converter and by
\* toPascalCase, so converting the converted name once more changes nothing.
C16_PascalCaseKeepsIdentifiers ==
    (step \in {"type", "done"} /\ IsPascalIdentifier(collectionName))
        => /\ pascalCaseName = collectionName
           /\ toPascalCase(collectionName) = collectionName
           /\ pascalCase(pascalCaseName) = pascalCaseName
           /\ toPascalCase(toPascalCase(collectionName)) = toPascalCase(collectionName)

\* an identifier with an upper-case letter inside and a digit has been converted
C16_Witness ==
    /\ step = "type"
    /\ IsPascalIdentifier(collectionName)
    /\ \E i \in 2..Len(collectionName) : IsUpper(collectionName[i])
    /\ \E i \in 2..Len(collectionName) : IsDigit(collectionName[i])
    /\ pascalCaseName = collectionName

\* the text files a generation has put under its destination
GeneratedTextFiles == {k \in Under(tree, made.to) : IsTextFile(k)}

\* text holds the word w as one of its tokens
HasToken(text, w) == \E i \in 1..Len(text) : text[i] = w

\* text declares the slug w
HasSlug(text, w) ==
    \E i \in 1..Len(text) - 5 :
        SubSeq(text, i, i + 5) = <<"slug", ":", "sp", "dq", w, "dq">>

\* text declares a constant of the name w
HasTypeName(text, w) ==
    \E i \in 1..Len(text) - 2 : SubSeq(text, i, i + 2) = <<"const", "sp", w>>

\* C17: after a generation from a template (built-in or local) for a valid
\* name, the collection's index file has the slug camelCase(name) and the
\* type name pascalCase(name), and no generated text file holds the
\* template's own type name or slug any more.
C17_GeneratedFilesCarryOnlyNewName ==
    (made.kind \in {"builtin", "local"} /\ IsPascalIdentifier(pascalCaseName))
        => /\ FileName(made.to, "index", ".ts") \in DOMAIN tree
           /\ HasSlug(tree[FileName(made.to, "index", ".ts")], Word(camelCase(pascalCaseName)))
           /\ HasTypeName(tree[FileName(made.to, "index", ".ts")], Word(pascalCaseName))
           /\ \A k \in GeneratedTextFiles :
                 /\ ~HasToken(tree[k], toPascalCaseWord(made.key))
                 /\ ~HasToken(tree[k], camelCaseWord(made.key))

\* text b is text a with every token old replaced by new
Renamed(a, b, old, new) ==
    /\ Len(b) = Len(a)
    /\ \A i \in 1..Len(a) : b[i] = IF a[i] = old THEN new ELSE a[i]

\* the files a copy from made.from has to bring to made.to
SourceFiles == Under(treeBefore, made.from)

\* C18: after cloning a collection for a valid name, the destination holds as
\* many files as the source, and every text file of the source, at whatever
\* depth, is in the destination with each occurrence of the source's
\* PascalCase name replaced by the new PascalCase name.
C18_CloneRenamesEveryTextFile ==
    (made.kind = "clone" /\ IsPascalIdentifier(pascalCaseName))
        => /\ Cardinality(Under(tree, made.to)) = Cardinality(SourceFiles)
           /\ \A k \in SourceFiles :
                 IsTextFile(k)
                    => /\ Moved(k, made.from, made.to) \in DOMAIN tree
                       /\ Renamed(treeBefore[k], tree[Moved(k, made.from, made.to)],
                                  toPascalCaseWord(made.key), Word(pascalCaseName))

\* a file that is neither .ts nor .js
NonText(k) == k.ext # ".ts" /\ k.ext # ".js"

\* the file of the source has arrived in the destination as it was
ArrivedUnchanged(k) ==
    /\ Moved(k, made.from, made.to) \in DOMAIN tree
    /\ tree[Moved(k, made.from, made.to)] = treeBefore[k]

\* C19 as stated: after a generation from a local template or a clone, every
\* file of the source that is not text is in the destination, unchanged.
C19_EveryNonTextFileArrives ==
    made.kind \in {"local", "clone"}
        => \A k \in SourceFiles : NonText(k) => ArrivedUnchanged(k)

\* C19, amended: every file of the source that is not text arrives unchanged,
\* but for the template.json of a local template, which is not copied; and no
\* file that is not text and was there before has been changed.
C19_NonTextFilesArriveButTemplateJson ==
    made.kind \in {"local", "clone"}
        => /\ \A k \in SourceFiles :
                 NonText(k)
                    => IF made.kind = "local" /\ k.stem = "template" /\ k.ext = ".json"
                       THEN Moved(k, made.from, made.to) \notin DOMAIN tree
                       ELSE ArrivedUnchanged(k)
           /\ \A k \in DOMAIN treeBefore : NonText(k) => tree[k] = treeBefore[k]

\* a local template's picture, which holds the template's type name, has
\* arrived unchanged beside an index file that was rewritten
C19_Witness ==
    /\ made.kind = "local"
    /\ IsPascalIdentifier(pascalCaseName)
    /\ \E k \in SourceFiles :
          /\ k.ext = ".png"
          /\ HasToken(treeBefore[k], toPascalCaseWord(made.key))
          /\ ArrivedUnchanged(k)
    /\ HasTypeName(tree[FileName(made.to, "index", ".ts")], Word(pascalCaseName))

\* ------------------------------------------------- the validators, on a text
\* A configuration text is put together from at most MaxParts parts: the two
\* module markers, what the three templates require, a part of one of these,
\* and a filler.
MaxParts == 3

Parts ==
    << << "export default", "sp" >>,
       << "module.exports", "sp", "=", "sp" >>,
       << "@tailwindcss/postcss" >>,
       << "getShadcnContent", "(", ")" >>,
       << "getShadcnContent" >>,
       << "@payloadcmsdirectory/shadcn-ui/globals.css" >>,
       << "{", "}" >> >>

Part(choice, i) == IF i <= Len(choice) THEN Parts[choice[i]] ELSE <<>>

\* the text of at most four chosen parts
TextOf(choice) == Part(choice, 1) \o Part(choice, 2) \o Part(choice, 3) \o Part(choice, 4)

Texts == {TextOf(choice) : choice \in UNION {[1..n -> 1..Len(Parts)] : n \in 0..MaxParts}}

templateNames == {"postcss", "tailwind", "css"}

InitValidate ==
    /\ Loaded
    /\ NotInstalling
    /\ NotEditing
    /\ checked \in Texts
    /\ validation = NoValidation
    /\ doc = <<>> /\ typed = 0 /\ stage = "head" /\ phase = "off"
    /\ patched = <<>> /\ repatched = <<>>
    /\ NoSession
    /\ argName = <<>> /\ collectionName = <<>> /\ pascalCaseName = <<>>
    /\ step = "off" /\ prompted = <<>> /\ answer = ""
    /\ useLocal = FALSE /\ tree = EmptyTree /\ treeBefore = EmptyTree
    /\ dirs = {} /\ made = NoRun

\* validateSingleConfig for a file that exists: config.template.validate(content)
ValidateSingleConfig(template) ==
    /\ pc = "off" /\ step = "off"
    /\ validation = NoValidation
    /\ validation' =
          [template |-> template,
           isValid |-> validate(template, checked).isValid,
           format |-> validate(template, checked).format,
           hasRequiredContent |-> validate(template, checked).hasRequiredContent]
    /\ UNCHANGED <<checked, textVars, fsVars, genVars, catVars>>

NextValidate == \E template \in templateNames : ValidateSingleConfig(template)

SpecValidate == InitValidate /\ [][NextValidate]_vars

\* -------------------------------------------------------- claims on validators
\* text m occurs in text
Occurs(text, m) ==
    \E i \in 1..(Len(text) - Len(m) + 1) : SubSeq(text, i, i + Len(m) - 1) = m

needsUpdate(v) == ~v.isValid

\* C21: a text that holds what the template requires is reported with
\* needsUpdate false, whichever module marker it has, or none.
C21_MarkerMeansNoUpdate ==
    (validation.template # "none"
        /\ Occurs(checked, requiredContent(validation.template)))
        => ~needsUpdate(validation)

\* ------------------------------------------------- claims on file updates, 2
\* C22: updatePayloadConfigFile takes its steps in the order read, transform,
\* backup, write: when the backup is about to be taken the content has been
\* read and transformed, and when the file is about to be written the backup
\* step is behind and the content is the transformed text.
C22_BackupAfterTransform ==
    /\ pc = "backup" => configContent = updatePayloadConfig(before)
    /\ pc = "write" => configContent = updatePayloadConfig(before)
    /\ pc \in {"read", "update"} => fs[backupPath(configPath)] = orig[backupPath(configPath)]

\* ------------------------------------------------------- the tool as a whole
\* One command of the tool runs: a session of file updates, a scaffolding
\* run, or a validation.
InitTool == InitFs \/ InitGen \/ InitValidate

NextTool == NextFs \/ NextGen \/ NextValidate

SpecTool == InitTool /\ [][NextTool]_vars

\* C23: whatever was validated, updated, backed up, generated, cloned or
\* copied, every template of both catalogs has the name, description and
\* content it was defined with.
C23_CatalogsUnchanged ==
    /\ catalog.config = CONFIG_TEMPLATES
    /\ catalog.collection = COLLECTION_TEMPLATES

\* createBackups has put a backupPath on a config of the handler, whose
\* template is as it was
C23_Witness ==
    /\ last = Returned("createBackups")
    /\ \E i \in 1..Len(handler) :
          /\ handler[i].backupPath = backupPath(handler[i].path)
          /\ catalog.config[handler[i].template] = CONFIG_TEMPLATES[handler[i].template]

\* the backup files that exist
Backups(f) == {p \in Paths : p[2] = ".bak" /\ pathExists(f, p)}

\* C24: no step of any operation removes a backup file: a backup that exists
\* before a step exists after it.
C24_BackupsAreKept == [][Backups(fs) \subseteq Backups(fs')]_vars

\* a backup made in this session is still there after a mutation that failed
\* and was restored from it
C24_Witness ==
    /\ pc = "idle"
    /\ last.op = "updatePayloadConfigFile" /\ last.status = "throw" /\ last.restored
    /\ ~pathExists(orig, backupPath(configPath))
    /\ backupPath(configPath) \in Backups(fs)

\* ------------------------------------------------- the install-plugin command
PLUGIN_INSTALLERS == {"shadcn"}

\* the plugin names typed on the command line
PluginNames == {"shadcn", "Shadcn", "tailwind"}

\* plugin.toLowerCase() of those names
toLowerCasePlugin(plugin) ==
    IF plugin = "Shadcn" THEN "shadcn" ELSE plugin

CSS_IMPORT == <<"SHADCN_TEMPLATES.CSS_IMPORT">>

\* the order install calls its four updates in
InstallOrder == <<"tailwind", "postcss", "css", "payload">>

InitInstall ==
    /\ FsSession
    /\ install = [NoInstall EXCEPT !.at = "idle"]
    /\ process = Running
    /\ NotEditing

\* a throw inside install: its catch reports and throws on to the action
Fail(message) == [install EXCEPT !.at = "catch", !.error = message]

Wrote(kind, p, text) ==
    [install EXCEPT !.at = IF kind = "payload" THEN "done"
                           ELSE InstallOrder[Len(install.wrote) + 2],
                    !.wrote = Append(install.wrote,
                                     [kind |-> kind, path |-> p, text |-> text])]

\* the action of the command: an unknown plugin ends the process at once
installPluginAction(plugin) ==
    /\ install.at = "idle"
    /\ IF toLowerCasePlugin(plugin) \notin PLUGIN_INSTALLERS
       THEN /\ install' = [install EXCEPT !.at = "exited", !.error = "unknown"]
            /\ process' = [exited |-> TRUE, code |-> 1]
       ELSE /\ install' = [install EXCEPT !.at = "validate"]
            /\ process' = process
    /\ UNCHANGED <<textVars, fsVars, genVars, valVars, catalog, handler, directory>>

\* an install that goes on whatever validateEnvironment returned
validateEnvironment_ignored(result) ==
    /\ install.at = "validate"
    /\ install' = [install EXCEPT !.at = "confirm", !.environment = result]
    /\ UNCHANGED <<textVars, fsVars, genVars, valVars, catalog, handler, process, directory>>

\* if (!(await this.validateEnvironment())) throw; what it returns depends on
\* the installed Tailwind, the answers typed and the package manager
validateEnvironment(result) ==
    /\ install.at = "validate"
    /\ install' = IF result
                  THEN [install EXCEPT !.at = "confirm", !.environment = TRUE]
                  ELSE Fail("Environment validation failed")
    /\ UNCHANGED <<textVars, fsVars, genVars, valVars, catalog, handler, process, directory>>

\* "Are these paths correct?"; when they are not, the path typed must exist
confirmPaths(confirm, customPayloadConfig) ==
    /\ install.at = "confirm"
    /\ install' =
          IF confirm THEN [install EXCEPT !.at = "tailwind"]
          ELSE IF pathExists(fs, File(customPayloadConfig))
          THEN [install EXCEPT !.at = "tailwind", !.confirm = FALSE,
                               !.custom = customPayloadConfig]
          ELSE [Fail("Payload config file not found") EXCEPT
                    !.confirm = FALSE, !.custom = customPayloadConfig]
    /\ UNCHANGED <<textVars, fsVars, genVars, valVars, catalog, handler, process, directory>>

\* await this.updateTailwindConfig()
installTailwindConfig(ok) ==
    /\ install.at = "tailwind"
    /\ LET found == findConfigFile(fs, tailwindPaths)
       IN  IF found = null
           THEN /\ install' = Fail("Could not find Tailwind config file")
                /\ UNCHANGED <<fs, written>>
           ELSE IF ok
           THEN /\ fs' = [fs EXCEPT ![found] = tailwindUpdate(fs[found])]
                /\ written' = FirstWrite(fs, written, found)
                /\ install' = Wrote("tailwind", found, tailwindUpdate(fs[found]))
           ELSE /\ install' = Fail("write")
                /\ UNCHANGED <<fs, written>>
    /\ UNCHANGED <<pc, configPath, configContent, error, last, calls, orig, before,
                   textVars, genVars, valVars, catalog, handler, process, directory>>

\* await this.updatePostCSSConfig()
installPostCSSConfig(ok) ==
    /\ install.at = "postcss"
    /\ LET found == findConfigFile(fs, postcssPaths)
           target == IF found = null THEN File("postcss.config.js") ELSE found
       IN  IF ok
           THEN /\ fs' = [fs EXCEPT ![target] = POSTCSS_CONFIG]
                /\ written' = FirstWrite(fs, written, target)
                /\ install' = Wrote("postcss", target, POSTCSS_CONFIG)
           ELSE /\ install' = Fail("write")
                /\ UNCHANGED <<fs, written>>
    /\ UNCHANGED <<pc, configPath, configContent, error, last, calls, orig, before,
                   textVars, genVars, valVars, catalog, handler, process, directory>>

\* await this.updateGlobalCSS()
installGlobalCSS(ok) ==
    /\ install.at = "css"
    /\ IF ok
       THEN /\ fs' = [fs EXCEPT ![File(cssPath)] = CSS_IMPORT]
            /\ written' = FirstWrite(fs, written, File(cssPath))
            /\ install' = Wrote("css", File(cssPath), CSS_IMPORT)
       ELSE /\ install' = Fail("write")
            /\ UNCHANGED <<fs, written>>
    /\ UNCHANGED <<pc, configPath, configContent, error, last, calls, orig, before,
                   textVars, genVars, valVars, catalog, handler, process, directory>>

\* await this.updatePayloadConfigFile(): the backup, the read, the patch and
\* the write, and on a failure the restore from the backup
installPayloadConfigFile(backedUp, outcome, restored) ==
    /\ install.at = "payload"
    /\ LET found == findConfigFile(fs, payloadPaths)
           f1 == IF backedUp
                 THEN [fs EXCEPT ![backupPath(found)] = fs[found]]
                 ELSE fs
           content == updatePayloadConfig(f1[found])
           f2 == CASE outcome = "ok" -> [f1 EXCEPT ![found] = content]
                   [] outcome = "truncated" -> [f1 EXCEPT ![found] = <<>>]
                   [] OTHER -> f1
           f3 == IF pathExists(f2, backupPath(found)) /\ restored
                 THEN [f2 EXCEPT ![found] = f2[backupPath(found)]]
                 ELSE f2
       IN  IF found = null
           THEN /\ install' = Fail("Could not find Payload config file")
                /\ UNCHANGED <<fs, written>>
           ELSE IF outcome = "ok"
           THEN /\ fs' = f2
                /\ written' = FirstWrite(f1, written, found)
                /\ install' = Wrote("payload", found, content)
           ELSE /\ fs' = f3
                /\ written' = IF outcome = "truncated"
                              THEN FirstWrite(f1, written, found) ELSE written
                /\ install' = Fail(outcome)
    /\ UNCHANGED <<pc, configPath, configContent, error, last, calls, orig, before,
                   textVars, genVars, valVars, catalog, handler, process, directory>>

\* the catch of the action: the error is logged and process.exit(1) is called
installCatch ==
    /\ install.at = "catch"
    /\ install' = [install EXCEPT !.at = "exited"]
    /\ process' = [exited |-> TRUE, code |-> 1]
    /\ UNCHANGED <<textVars, fsVars, genVars, valVars, catalog, handler, directory>>

InstallOutcomes == {"ok", "untouched", "truncated", "read"}

NextInstall ==
    \/ \E plugin \in PluginNames : installPluginAction(plugin)
    \/ \E result \in BOOLEAN : validateEnvironment(result)
    \/ \E confirm \in BOOLEAN, customPayloadConfig \in Range(payloadPaths) :
          confirmPaths(confirm, customPayloadConfig)
    \/ \E ok \in BOOLEAN : installTailwindConfig(ok)
    \/ \E ok \in BOOLEAN : installPostCSSConfig(ok)
    \/ \E ok \in BOOLEAN : installGlobalCSS(ok)
    \/ \E backedUp \in BOOLEAN, outcome \in InstallOutcomes, restored \in BOOLEAN :
          installPayloadConfigFile(backedUp, outcome, restored)
    \/ installCatch

SpecInstall == InitInstall /\ [][NextInstall]_vars

\* C25: no failure of an installation ends the host process; every failure
\* comes back to the caller as an error
C25_ProcessNeverExits == ~process.exited

\* the configuration files that differ from what the session began with
Rewritten == {p \in Paths : p[2] = "" /\ fs[p] # orig[p]}

Recorded == {install.wrote[i].path : i \in 1..Len(install.wrote)}

\* C29: install changes no configuration file unless validateEnvironment
\* returned true and, when the paths were rejected, the path typed exists; the
\* files are written in the order Tailwind, PostCSS, CSS, Payload; and whatever
\* happens later, the files written earlier keep the text written to them
C29_GatedOrderedAndKept ==
    /\ (Rewritten # {} \/ install.wrote # <<>>) =>
          /\ install.environment
          /\ install.confirm \/ pathExists(orig, File(install.custom))
    /\ Len(install.wrote) <= Len(InstallOrder)
    /\ \A i \in 1..Len(install.wrote) : install.wrote[i].kind = InstallOrder[i]
    /\ \A i \in 1..Len(install.wrote) :
          install.wrote[i].kind # "payload" =>
              fs[install.wrote[i].path] = install.wrote[i].text
    /\ \A p \in Rewritten :
          \/ p \in Recorded
          \/ /\ install.at \in {"catch", "exited"}
             /\ Len(install.wrote) = 3
             /\ p = findConfigFile(orig, payloadPaths)

\* the paths were rejected, the path typed exists, three files were rewritten
\* and the Payload step failed: the process has ended with the three in place
C29_Witness ==
    /\ install.at = "exited" /\ install.error = "truncated"
    /\ ~install.confirm
    /\ Len(install.wrote) = 3
    /\ \A i \in 1..3 : install.wrote[i].path \in Rewritten

\* a run of generation or cloning in which an error was thrown
Failed == made.kind \in {"builtin failed", "local failed", "clone failed"}

\* the files of the destination directory that the failed run wrote
PartlyWritten == {k \in Under(tree, made.to) : k \notin DOMAIN treeBefore \/ tree[k] # treeBefore[k]}

\* C27: when generation or cloning fails partway, the files already written
\* stay where they are and the failure is reported to the caller
C27_PartialFilesStayAndFailureIsReported ==
    Failed => /\ \A k \in DOMAIN treeBefore : k \in DOMAIN tree
              /\ made.result = "rejected"

\* C26: the patch changes only the first plugins list: apart from the import
\* line put in front, the text before the list and the text after it are in
\* the output as they were
C26_OnlyThePluginsListChanges ==
    (phase = "patched" /\ pluginsMatch(doc) # NoMatch)
        => LET m == pluginsMatch(doc)
               pre == Slice(doc, 1, m.start - 1)
               post == Slice(doc, m.close + 1, Len(doc))
           IN  \E imp \in {<<>>, importStatement} :
                 /\ Len(patched) >= Len(imp) + Len(pre) + Len(post)
                 /\ Slice(patched, 1, Len(imp) + Len(pre)) = imp \o pre
                 /\ Slice(patched, Len(patched) - Len(post) + 1, Len(patched)) = post

\* validateConfigs says needsUpdate of config c over the files f: the file is
\* missing, or its validation is not valid
NeedsUpdate(f, c) ==
    IF pathExists(f, c.path) THEN needsUpdate(validate(c.template, f[c.path])) ELSE TRUE

Registered == {configs[i] : i \in 1..Len(configs)}

\* the step is a call of updateConfigs
UpdateConfigsStep == calls' = calls + 1 /\ last'.op = "updateConfigs"

MaxTyped == 4

\* plugin.packageName of the add command, pluginName of the remove command
addedPackage == "@payloadcmsdirectory/shadcn-ui"

ConfigPieces ==
    << << "plugins", ":", "sp", "[" >>,
       << "]" >>,
       << "sq", "a", "sq" >>,
       << "dq", "b", "dq" >>,
       << "," >>,
       << "sp" >>,
       << "nl" >>,
       << "sq", addedPackage, "sq" >>,
       \* another list, written with a trailing comma
       << "other", ":", "sp", "[", "sq", "a", "sq", ",", "nl", "]", ",", "nl" >>,
       \* a comment that names the package
       << "//", "sp", addedPackage, "nl" >> >>

\* the file the add command creates when there is none
createdConfig ==
    << "nl", "/** PayloadCMS Directory Configuration */", "nl",
       "module.exports", "sp", "=", "sp", "{", "nl",
       "sp", "sp", "plugins", ":", "sp", "[", "sq", addedPackage, "sq", "]", ",", "nl",
       "sp", "sp", "// Add your customizations here", "nl",
       "}", ";", "nl" >>

\* the replacer of configContent.replace(/plugins\s*:\s*\[([\s\S]*?)\]/, ...)
addedPluginsSection(pluginsContent) ==
    IF Trim(pluginsContent) = <<>>
    THEN <<"plugins", ":", "sp", "[", "sq", addedPackage, "sq", "]">>
    ELSE <<"plugins", ":", "sp", "[">> \o pluginsContent
            \o <<",", "sp", "sq", addedPackage, "sq", "]">>

\* the add command on a file that exists: nothing when the text includes the
\* package name, else the first plugins list is replaced
addToConfig(content) ==
    IF Includes(content, addedPackage) THEN content
    ELSE IF pluginsMatch(content) = NoMatch THEN content
    ELSE ReplaceMatch(content, pluginsMatch(content),
                      addedPluginsSection(Capture(content, pluginsMatch(content))))

IsQuote(t) == t \in {"sq", "dq"}

\* replace(new RegExp(`['"]${pluginName}['"][,]?\\s*`, "g"), ""): every quoted
\* pluginName goes, with the comma after it and the whitespace after that
removeQuoted(s) ==
    LET n == Len(s)
        Starts(i) == /\ i + 2 <= n
                     /\ IsQuote(s[i]) /\ s[i + 1] = addedPackage /\ IsQuote(s[i + 2])
        after(i) == IF i + 3 <= n /\ s[i + 3] = "," THEN i + 4 ELSE i + 3
        matched == {i \in 1..n : Starts(i)}
        kept == {k \in 1..n : ~\E i \in matched : i <= k /\ k < SkipWs(s, after(i))}
        nth(k) == CHOOSE i \in kept : Cardinality({j \in kept : j <= i}) = k
    IN  IF matched = {} THEN s
        ELSE [k \in 1..Cardinality(kept) |-> s[nth(k)]]

\* the remove command: the quoted names go, then the first `,\s*]` is cleaned
removeFromConfig(content) == RemoveCommaBeforeClose(removeQuoted(content))

InitDirectory ==
    /\ Loaded
    /\ NotInstalling
    /\ NoScaffold
    /\ NoSession
    /\ doc = <<>> /\ typed = 0 /\ stage = "head" /\ phase = "off"
    /\ patched = <<>> /\ repatched = <<>>
    /\ \E exists \in BOOLEAN :
          directory = [NoDirectory EXCEPT !.exists = exists, !.phase = "edit"]

TypeConfig(i) ==
    /\ directory.phase = "edit" /\ directory.exists /\ directory.typed < MaxTyped
    /\ directory' = [directory EXCEPT !.content = @ \o ConfigPieces[i],
                                      !.typed = @ + 1]
    /\ UNCHANGED <<textVars, fsVars, genVars, valVars, catalog, handler, install, process>>

\* the add command, from "Update the config file if it exists" on
addCommand ==
    /\ directory.phase = "edit"
    /\ directory' = [directory EXCEPT
                        !.phase = "added",
                        !.added = IF directory.exists THEN addToConfig(directory.content)
                                  ELSE createdConfig]
    /\ UNCHANGED <<textVars, fsVars, genVars, valVars, catalog, handler, install, process>>

\* the remove command, from "Update the config file if it exists" on
removeCommand ==
    /\ directory.phase = "added"
    /\ directory' = [directory EXCEPT !.phase = "removed",
                                      !.removed = removeFromConfig(directory.added)]
    /\ UNCHANGED <<textVars, fsVars, genVars, valVars, catalog, handler, install, process>>

NextDirectory ==
    \/ \E i \in 1..Len(ConfigPieces) : TypeConfig(i)
    \/ addCommand
    \/ removeCommand

SpecDirectory == InitDirectory /\ [][NextDirectory]_vars

NotSeparator(t) == t \notin {",", "sp", "nl"}

NotWhitespace(t) == ~IsWs(t)

\* the entries of a list, in order
ListEntries(list) == SelectSeq(list, NotSeparator)

\* no separator at the start or the end of the list and no two in a row
WellSeparated(list) ==
    LET t == SelectSeq(list, NotWhitespace)
    IN  \/ t = <<>>
        \/ /\ t[1] # "," /\ t[Len(t)] # ","
           /\ \A i \in 1..(Len(t) - 1) : ~(t[i] = "," /\ t[i + 1] = ",")

\* C30: for a file whose plugins list (itself without stray separators) does
\* not name the package, add and then remove give a plugins list with exactly
\* the original entries and no doubled, leading or trailing separator; and
\* add on a file that names the package leaves the text as it is
C30_AddThenRemoveRestoresList ==
    LET c == directory.content
        r == directory.removed
    IN  /\ (/\ directory.phase = "removed" /\ directory.exists
            /\ pluginsMatch(c) # NoMatch
            /\ ~Includes(Capture(c, pluginsMatch(c)), addedPackage)
            /\ WellSeparated(Capture(c, pluginsMatch(c))))
               => /\ pluginsMatch(r) # NoMatch
                  /\ ListEntries(Capture(r, pluginsMatch(r))) = ListEntries(Capture(c, pluginsMatch(c)))
                  /\ WellSeparated(Capture(r, pluginsMatch(r)))
        /\ (directory.phase \in {"added", "removed"} /\ directory.exists
                /\ Includes(c, addedPackage))
               => directory.added = c

====
